---- MODULE Spec2Model ----
\* Model of the serverless-workflow task interpreter of
\* internal/workflows/workflow.go: the entry points that parse a source, the
\* sequential dispatcher (executeTasks, executeTaskItem and the per-kind
\* executors), the fork/join of executeForkTaskItem and the branch activity
\* ExecuteBranchActivity.
EXTENDS Integers, Sequences, FiniteSets, TLC

\* ------------------------------------------------------------------ bounds
MaxVal == 2        \* numbers a Set task may assign: 1..MaxVal
MaxLen == 2        \* items in the root task list
MaxBody == 2       \* items in the body of a Do task
MaxBranches == 2   \* branches of a Fork task

\* ------------------------------------------------------------------ values
\* interface{} values, one record shape per dynamic type
Null == [null |-> TRUE]
Num(n) == [num |-> n]
Obj(m) == [obj |-> m]
Arr(s) == [arr |-> s]
HTTPCallResult(status, body) == [http |-> [status |-> status, body |-> body]]
Str(s) == [str |-> s]
Bool(b) == [bool |-> b]
\* a float64 with the given integral part and hundredths
Flt(whole, frac) == [flt |-> [whole |-> whole, frac |-> frac]]

\* a string whose text is an expression, given by the tokens of the text
Text(e) == [text |-> e]

EmptyMap == <<>>

Put(m, k, v) == [x \in (DOMAIN m) \cup {k} |-> IF x = k THEN v ELSE m[x]]

\* a Set that adds an assigned number to the number the key already holds
CopyIntoSum(dst, src) ==
  [x \in (DOMAIN dst) \cup (DOMAIN src) |->
     IF x \notin DOMAIN src THEN dst[x]
     ELSE IF x \in DOMAIN dst /\ "num" \in DOMAIN dst[x] /\ "num" \in DOMAIN src[x]
       THEN [num |-> dst[x].num + src[x].num]
     ELSE src[x]]

\* a Set that replaces the whole map by the assignments
CopyIntoReplace(dst, src) == src

\* for key, value := range src { dst[key] = value }
CopyInto(dst, src) ==
  [x \in (DOMAIN dst) \cup (DOMAIN src) |-> IF x \in DOMAIN src THEN src[x] ELSE dst[x]]

\* The JSON data converter of the activity boundary: a struct is decoded
\* into interface{} as a generic object, containers are converted elementwise.
RECURSIVE JSONRoundTrip(_)
JSONRoundTrip(v) ==
  IF "http" \in DOMAIN v
    THEN Obj([f \in {"status", "body", "headers"} |->
               CASE f = "status" -> Num(v.http.status)
                 [] f = "body" -> JSONRoundTrip(v.http.body)
                 [] OTHER -> Null])
  ELSE IF "obj" \in DOMAIN v
    THEN Obj([k \in DOMAIN v.obj |-> JSONRoundTrip(v.obj[k])])
  ELSE IF "arr" \in DOMAIN v
    THEN Arr([i \in DOMAIN v.arr |-> JSONRoundTrip(v.arr[i])])
  ELSE v

\* ------------------------------------------------------------------ errors
NoErr == [none |-> TRUE]
ErrUnsupported(key) == [msg |-> "unsupported task type for task", key |-> key]
ErrNoBranches == [msg |-> "fork task has no branches"]
ErrRequest == [msg |-> "HTTP request failed"]
ErrUnknownTemporal == [msg |-> "unknown temporal call type"]
ErrHTTPCall(e) == [msg |-> "HTTP call failed", cause |-> e]
ErrTask(i, key, e) == [msg |-> "task failed", index |-> i, key |-> key, cause |-> e]
ErrBranch(i, e) == [msg |-> "branch failed", index |-> i, cause |-> e]
ErrBranchUnsupported(key) == [msg |-> "unsupported task type in branch", key |-> key]
ErrBranchTask(key, e) == [msg |-> "branch task failed", key |-> key, cause |-> e]
ErrNestedUnsupported(key) == [msg |-> "unsupported nested task type in branch", key |-> key]
ErrNestedTask(key, e) == [msg |-> "nested task failed", key |-> key, cause |-> e]
ErrParse == [msg |-> "parser rejected the source"]
ErrInvalidJSON(e) == [msg |-> "invalid serverless workflow JSON", cause |-> e]
ErrInvalidYAML(e) == [msg |-> "invalid serverless workflow YAML", cause |-> e]
ErrExecution(e) == [msg |-> "workflow execution failed", cause |-> e]

ErrPropertyNotFound(key) == [msg |-> "property not found", key |-> key]
ErrExpressionSyntax == [msg |-> "invalid expression"]

\* errors.Unwrap chain of %w
RECURSIVE Wraps(_, _)
Wraps(e, c) == e = c \/ ("cause" \in DOMAIN e /\ Wraps(e.cause, c))

RECURSIVE RootCause(_)
RootCause(e) == IF "cause" \in DOMAIN e THEN RootCause(e.cause) ELSE e

\* ------------------------------------------------------------------ expressions
\* an expression is the sequence of the tokens of its text
Open == [t |-> "${"]
Close == [t |-> "}"]
Dot == [t |-> "."]
EqEq == [t |-> "=="]
Id(name) == [t |-> "id", v |-> name]
Lit(text) == [t |-> "lit", v |-> text]

PathExpr(name) == <<Dot, Id(name)>>
EqExpr(name, text) == <<Dot, Id(name), EqEq, Lit(text)>>
Template(e) == <<Open>> \o e \o <<Close>>

\* an evaluator that parses the wrapper as part of the inner form
StripTemplateNever(e) == e

\* the ${ ... } wrapper is stripped before the inner form is parsed
StripTemplate(e) ==
  IF Len(e) >= 2 /\ e[1] = Open /\ e[Len(e)] = Close THEN SubSeq(e, 2, Len(e) - 1) ELSE e

\* a lookup that reads an absent key as null
EvaluatePathLenient(p, ctx) ==
  LET q == IF Len(p) >= 1 /\ p[1] = Dot THEN Tail(p) ELSE p
  IN IF Len(q) # 1 \/ q[1].t # "id" THEN [ok |-> FALSE, err |-> ErrExpressionSyntax]
     ELSE IF q[1].v \in DOMAIN ctx THEN [ok |-> TRUE, value |-> ctx[q[1].v]]
     ELSE [ok |-> TRUE, value |-> Null]

\* a bare path, with or without its leading dot, looks up one key of the context
EvaluatePath(p, ctx) ==
  LET q == IF Len(p) >= 1 /\ p[1] = Dot THEN Tail(p) ELSE p
  IN IF Len(q) # 1 \/ q[1].t # "id" THEN [ok |-> FALSE, err |-> ErrExpressionSyntax]
     ELSE IF q[1].v \in DOMAIN ctx THEN [ok |-> TRUE, value |-> ctx[q[1].v]]
     ELSE [ok |-> FALSE, err |-> ErrPropertyNotFound(q[1].v)]

\* a comparison that only tests that the left-hand value is a string
CompareLiteralKind(v, text) == Bool("str" \in DOMAIN v)

\* the looked-up value against the literal text of the right-hand side
CompareLiteral(v, text) == Bool(v = Str(text))

\* a bare path, or <path> == "<literal>" compared structurally
evaluateSimpleExpression(expression, ctx) ==
  LET e == StripTemplate(expression)
      eqs == {i \in DOMAIN e : e[i] = EqEq}
  IN IF eqs = {} THEN EvaluatePath(e, ctx)
     ELSE LET i == CHOOSE x \in eqs : \A y \in eqs : x <= y
              left == EvaluatePath(SubSeq(e, 1, i - 1), ctx)
              right == SubSeq(e, i + 1, Len(e))
          IN IF Len(right) # 1 \/ right[1].t # "lit" THEN [ok |-> FALSE, err |-> ErrExpressionSyntax]
             ELSE IF ~left.ok THEN left
             ELSE [ok |-> TRUE, value |-> CompareLiteral(left.value, right[1].v)]

\* a truthiness that only null lacks
isTruthyNonNull(v) == "null" \notin DOMAIN v

\* the truthiness of a value
isTruthy(v) ==
  CASE "null" \in DOMAIN v -> FALSE
    [] "bool" \in DOMAIN v -> v.bool
    [] "str" \in DOMAIN v -> v.str # ""
    [] "num" \in DOMAIN v -> v.num # 0
    [] "flt" \in DOMAIN v -> v.flt.whole # 0 \/ v.flt.frac # 0
    [] "arr" \in DOMAIN v -> Len(v.arr) > 0
    [] "obj" \in DOMAIN v -> DOMAIN v.obj # {}
    [] OTHER -> TRUE

\* ------------------------------------------------------------------ tasks
SetTask(key, m) == [key |-> key, kind |-> "set", set |-> m]
\* the endpoints of a call: of the temporal facade, or of any other server
TemporalEndpoint == "http://localhost:8088/temporal/execute"
RegularEndpoint == "http://example.com/api"
\* httpTask.With: method, endpoint, body and headers as the definition gives them
WithArgs(method, endpoint, body, headers) ==
  [method |-> method, endpoint |-> endpoint, body |-> body, headers |-> headers]
CallWith(key, w) == [key |-> key, kind |-> "call", with |-> w]
CallHTTP(key) == CallWith(key, WithArgs("GET", RegularEndpoint, Null, EmptyMap))
SwitchTask(key) == [key |-> key, kind |-> "switch"]
Case(name, when, then) == [name |-> name, hasWhen |-> TRUE, when |-> when, then |-> then]
DefaultCase(name, then) == [name |-> name, hasWhen |-> FALSE, when |-> <<>>, then |-> then]
SwitchCases(key, cases) == [key |-> key, kind |-> "switch", cases |-> cases]
ForTask(key, each, inExpr, body) == [key |-> key, kind |-> "for", each |-> each, inExpr |-> inExpr, do |-> body]
DoTask(key, body) == [key |-> key, kind |-> "do", do |-> body]
ForkTask(key, branches) == [key |-> key, kind |-> "fork", nilBranches |-> FALSE, branches |-> branches]
ForkTaskNil(key) == [key |-> key, kind |-> "fork", nilBranches |-> TRUE, branches |-> <<>>]

\* fmt.Sprintf("task_%d_result", i), i counted from 0
AliasNames == <<"task_0_result", "task_1_result", "task_2_result", "task_3_result", "task_4_result">>
Alias(i) == AliasNames[i + 1]

\* task keys by position: unique within a list, shared or not between lists
TNames == <<"t0", "t1", "t2", "t3", "t4", "t5", "t6", "t7">>
NNames == <<"n0", "n1", "n2", "n3", "n4">>
BNames == <<"b0", "b1", "b2", "b3", "b4">>

NumVals == {Num(n) : n \in 1..MaxVal}
SetMaps == [{"a"} -> NumVals] \cup [{"a", "b"} -> {Num(1)}]

Simple(key) == {SetTask(key, m) : m \in SetMaps} \cup {CallHTTP(key), SwitchTask(key)}

\* sequences of length 0..n (n <= 4) whose i-th element is in Items[i]
ListsOf(n, Items) ==
  {<<>>}
  \cup (IF n >= 1 THEN {<<a>> : a \in Items[1]} ELSE {})
  \cup (IF n >= 2 THEN {<<a, b>> : a \in Items[1], b \in Items[2]} ELSE {})
  \cup (IF n >= 3 THEN {<<a, b, c>> : a \in Items[1], b \in Items[2], c \in Items[3]} ELSE {})
  \cup (IF n >= 4 THEN {<<a, b, c, d>> : a \in Items[1], b \in Items[2], c \in Items[3], d \in Items[4]}
                  ELSE {})

\* Do tasks of the dispatcher: bodies of simple items, of one more level of
\* Do and of a Fork, with keys that repeat the enclosing list's keys or not
InnerDo(key) == {DoTask(key, <<SetTask(NNames[1], [x \in {"a"} |-> Num(MaxVal)])>>),
                 DoTask(key, <<SwitchTask(NNames[1])>>)}
InnerFork(key) == {ForkTask(key, <<SetTask(BNames[1], [x \in {"a"} |-> Num(1)]), CallHTTP(BNames[2])>>)}
DoBodyItems(key) == Simple(key) \cup InnerDo(key) \cup InnerFork(key)
DoTasks(key) ==
  {DoTask(key, body) : body \in ListsOf(MaxBody, [j \in 1..4 |-> DoBodyItems(TNames[j])])}
  \cup {DoTask(key, body) : body \in ListsOf(MaxBody, [j \in 1..4 |-> DoBodyItems(NNames[j])])}

\* branches of a Fork: each branch is one task item
BranchNested(j) == {SetTask(NNames[j], [x \in {"a"} |-> Num(MaxVal)]), CallHTTP(NNames[j]), SwitchTask(NNames[j])}
BranchSimple(b) == {SetTask(BNames[b], m) : m \in [{"a"} -> NumVals]} \cup {CallHTTP(BNames[b]), SwitchTask(BNames[b])}
BranchDo(b) == {DoTask(BNames[b], body) : body \in ListsOf(MaxBody, [j \in 1..4 |-> BranchNested(j)])}

\* lists of 1..MaxBranches one-step branches, and lists of a Do branch with
\* at most one one-step branch before or after it
BranchLists ==
  (ListsOf(MaxBranches, [b \in 1..4 |-> BranchSimple(b)]) \ {<<>>})
  \cup {<<d>> : d \in BranchDo(1)}
  \cup {<<d, x>> : d \in BranchDo(1), x \in BranchSimple(2)}
  \cup {<<x, d>> : x \in BranchSimple(1), d \in BranchDo(2)}

SmallForks(key) ==
  {ForkTaskNil(key), ForkTask(key, <<>>),
   ForkTask(key, <<SetTask(BNames[1], [x \in {"a"} |-> Num(1)])>>),
   ForkTask(key, <<SwitchTask(BNames[1]), SetTask(BNames[2], [x \in {"a"} |-> Num(MaxVal)])>>),
   ForkTask(key, <<DoTask(BNames[1], <<SetTask(NNames[1], [x \in {"a"} |-> Num(MaxVal)])>>),
                   ForkTaskNil(BNames[2])>>),
   ForkTask(key, <<DoTask(BNames[1], <<SetTask(NNames[1], [x \in {"a"} |-> Num(MaxVal)]),
                                       SetTask(NNames[2], [x \in {"a", "b"} |-> Num(1)])>>),
                   DoTask(BNames[2], <<SetTask(NNames[1], [x \in {"a"} |-> Num(1)]),
                                       DoTask(NNames[2], <<>>)>>)>>)}

Composite(key) == InnerDo(key) \cup SmallForks(key)

\* root lists of up to MaxLen items, at most one of them composite
Segment(from, n) == {l \in ListsOf(n, [i \in 1..4 |-> Simple(TNames[from + i])]) : Len(l) = n}
SequentialLists ==
  UNION {Segment(0, n) \cup
         UNION {{pre \o <<c>> \o post :
                   pre \in Segment(0, p - 1), c \in Composite(TNames[p]), post \in Segment(p, n - p)}
                : p \in 1..n}
         : n \in 0..MaxLen}

\* root lists made of a Do task, alone or followed by a Set task
DoLists ==
  {<<d>> \o post : d \in DoTasks(TNames[1]),
                   post \in {<<>>, <<SetTask(TNames[2], [x \in {"a", "b"} |-> Num(1)])>>}}
  \cup {<<SetTask(TNames[1], [x \in {"a"} |-> Num(1)]),
          DoTask(TNames[2], <<SetTask(TNames[1], [x \in {"a"} |-> Num(MaxVal)])>>)>>}

\* root lists made of one item followed by a Fork
ForkLists ==
  {<<pre, ForkTask(TNames[2], bs)>> :
     pre \in {SetTask(TNames[1], [x \in {"a", "b"} |-> Num(1)]), CallHTTP(TNames[1])},
     bs \in BranchLists}

\* root lists made of a Set task, a Switch task and a Set task
CaseLists ==
  {<<Case("case1", Template(EqExpr("status", "active")), "end"), DefaultCase("default", "continue")>>,
   <<Case("case1", Template(PathExpr("status")), "continue"), Case("case2", EqExpr("status", "active"), "end")>>,
   <<Case("case1", EqExpr("status", "done"), "continue")>>,
   <<DefaultCase("default", "end"), Case("case2", PathExpr("status"), "continue")>>}
SwitchLists ==
  {<<SetTask(TNames[1], [x \in {"status"} |-> Str(v)]), SwitchCases(TNames[2], cases),
     SetTask(TNames[3], [x \in {"a"} |-> Num(1)])>> : v \in {"active", ""}, cases \in CaseLists}

\* root lists made of a Set task, a For task and a Set task
ForLists ==
  {<<SetTask(TNames[1], [x \in {"items"} |-> Arr(items)]),
     ForTask(TNames[2], "item", Template(PathExpr("items")), <<SetTask(NNames[1], [x \in {"a"} |-> Num(1)])>>),
     SetTask(TNames[3], [x \in {"a"} |-> Num(1)])>> : items \in {<<>>, <<Num(1)>>}}

\* the arguments of a call: expressions in the body and in a header, and
\* the bodies the temporal facade tells apart
CallArgs ==
  {WithArgs("POST", RegularEndpoint, Text(Template(PathExpr("status"))), EmptyMap),
   WithArgs("GET", RegularEndpoint, Null, Put(EmptyMap, "X-Status", Text(Template(PathExpr("status"))))),
   WithArgs("POST", TemporalEndpoint, Obj(Put(EmptyMap, "workflowType", Str("child"))), EmptyMap),
   WithArgs("POST", TemporalEndpoint, Obj(Put(EmptyMap, "activityType", Str("notify"))), EmptyMap),
   WithArgs("POST", TemporalEndpoint, Null, EmptyMap)}

\* root lists made of a Set task and a call, at the top level or in a branch of a Fork
CallLists ==
  {<<SetTask(TNames[1], [x \in {"status"} |-> Str("active")]), CallWith(TNames[2], w)>> : w \in CallArgs}
  \cup {<<SetTask(TNames[1], [x \in {"status"} |-> Str("active")]),
          ForkTask(TNames[2], <<CallWith(BNames[1], w)>>)>> : w \in CallArgs}

\* root lists of one Set task that assigns its own Key, or its positional alias
OwnKeyLists ==
  {<<SetTask(TNames[1], [x \in {k} |-> Num(1)])>> : k \in {TNames[1], Alias(0)}}

TaskLists ==
  SequentialLists \cup DoLists \cup ForkLists \cup SwitchLists \cup ForLists \cup CallLists \cup OwnKeyLists

\* model.Workflow: Do is a pointer, nil or a task list
Workflows == {[hasDo |-> FALSE, do |-> <<>>]} \cup {[hasDo |-> TRUE, do |-> l] : l \in TaskLists}

\* the text handed to an entry point: its format, whether the parser accepts
\* it, and the definition it describes
\* (every definition as valid JSON; one-item and Switch lists in the other forms)
Sources ==
  {[format |-> "json", valid |-> TRUE, def |-> w] : w \in Workflows}
  \cup {[format |-> f, valid |-> v, def |-> [hasDo |-> TRUE, do |-> l]] :
          f \in {"json", "yaml"}, v \in BOOLEAN, l \in Segment(0, 1) \cup SwitchLists}

\* outcomes of one HTTP request: a response with a status code, or a transport error
StatusCodes == {200, 500}
CallOutcomes == {[ok |-> TRUE, status |-> s] : s \in StatusCodes} \cup {[ok |-> FALSE, status |-> 0]}

\* HTTPCallRequest{Method: ..., Endpoint: ..., Body: ..., Headers: ...}: the
\* fields of the task, as they are
HTTPCallRequest(w) ==
  [method |-> w.method, endpoint |-> w.endpoint, body |-> w.body, headers |-> w.headers]

\* executeRegularHTTPCall: whatever status the server answers is a result;
\* only a request that cannot be made or answered is an error
executeRegularHTTPCall(req) ==
  {IF o.ok THEN [ok |-> TRUE, result |-> HTTPCallResult(o.status, Null)]
           ELSE [ok |-> FALSE, err |-> ErrRequest] : o \in CallOutcomes}

\* the field of the JSON body that executeTemporalCall decodes, "" if absent
BodyField(body, name) ==
  IF "obj" \in DOMAIN body /\ name \in DOMAIN body.obj /\ "str" \in DOMAIN body.obj[name]
    THEN body.obj[name].str ELSE ""

\* executeTemporalCall: a canned 200 for a workflow or an activity call
executeTemporalCall(req) ==
  IF BodyField(req.body, "workflowType") # ""
    THEN [ok |-> TRUE,
          result |-> HTTPCallResult(200, Obj([k \in {"result", "workflowType"} |->
                       IF k = "result" THEN Str("Child workflow executed")
                       ELSE Str(BodyField(req.body, "workflowType"))]))]
  ELSE IF BodyField(req.body, "activityType") # ""
    THEN [ok |-> TRUE,
          result |-> HTTPCallResult(200, Obj([k \in {"result", "activityType"} |->
                       IF k = "result" THEN Str("Activity executed")
                       ELSE Str(BodyField(req.body, "activityType"))]))]
  ELSE [ok |-> FALSE, err |-> ErrUnknownTemporal]

\* strings.HasPrefix(req.Endpoint, "http://localhost:8088/temporal")
IsTemporal(endpoint) == endpoint = TemporalEndpoint

\* HTTPCallActivity: the outcomes the activity can return for a request
HTTPCallActivity(req) ==
  IF IsTemporal(req.endpoint) THEN {executeTemporalCall(req)} ELSE executeRegularHTTPCall(req)

\* an engine that issues every request a second time
IssueRequestTwice(reqs, r) == Append(Append(reqs, r), r)

\* the requests handed to the collaborator so far, and one more
IssueRequest(reqs, r) == Append(reqs, r)

\* ------------------------------------------------------------------ state
VARIABLES
  source,         \* the workflowJSON or workflowYAML argument of the entry point
  workflowDef,    \* the parsed workflow definition, Nil before parsing
  workflowState,  \* executeWorkflowDefinition: workflowState
  stack,          \* active executeTasks calls: [list, i, last, results]
  pc,             \* "parse", "rejected", "validated", "run", "fork" (blocked in future.Get), "done"
  futures,        \* the branch activities of the current Fork
  fi,             \* index of the future executeForkTaskItem is waiting for
  results,        \* executeForkTaskItem: results collected so far
  ret,            \* what executeWorkflowDefinition returned: [value, err]
  started,        \* history: paths of the items the dispatcher began to execute
  forkPre,        \* history: workflowState when the current Fork began
  forkRet,        \* history: "none", "waiting", "ok", "err" for the current Fork
  finished,       \* history: branch indices in the order their activities ended
  failedAt,       \* history: path of the item whose execution failed, <<>> if none
  requests,       \* history: the requests executeHTTPTask handed to HTTPCallActivity
  ev,             \* the expression evaluator's call: its arguments and what it returned
  conversation,   \* ChatbotWorkflow: state.Conversation
  isProcessing,   \* ChatbotWorkflow: state.IsProcessing
  chatPc,         \* ChatbotWorkflow: "off", "wait" (in ReceiveWithTimeout), "call" (in Get), "completed"
  userInput,      \* ChatbotWorkflow: the signal being handled
  retry,          \* ChatbotWorkflow: the retry counter of the inner loop
  signalCh,       \* the signals of "user-input" not yet received
  timer,          \* minutes the current ReceiveWithTimeout has waited
  chatRet,        \* what ChatbotWorkflow returned, Nil while it runs
  apiLog,         \* history: per received signal, the outcomes of its CallClaudeAPI calls
  idle,           \* history: minutes since the workflow last began to wait
  sent,           \* history: number of signals sent by clients other than SendChatMessage
  handler         \* the SendChatMessage requests: position, locals and response of each

chatvars == <<conversation, isProcessing, chatPc, userInput, retry, signalCh, timer, chatRet, apiLog,
              idle, sent, handler>>

vars == <<chatvars, ev, requests, source, workflowDef, workflowState, stack, pc, futures, fi, results, ret,
          started, forkPre, forkRet, finished, failedAt>>

Nil == [nil |-> TRUE]

\* the chatbot before it is started (p = "off") or at the start of its loop (p = "wait")
ChatStart(p, h) ==
  /\ conversation = <<>>
  /\ isProcessing = FALSE
  /\ chatPc = p
  /\ userInput = 0
  /\ retry = 0
  /\ signalCh = <<>>
  /\ timer = 0
  /\ chatRet = Nil
  /\ apiLog = <<>>
  /\ idle = 0
  /\ sent = 0
  /\ handler = h

\* one executeTasks call; entry is the State at the moment of the call
Frame(list, st) == [list |-> list, i |-> 1, last |-> Null, results |-> <<>>, entry |-> st]

Init ==
  /\ source \in Sources
  /\ workflowDef = Nil
  /\ workflowState = EmptyMap
  /\ stack = <<>>
  /\ pc = "parse"
  /\ futures = <<>>
  /\ fi = 0
  /\ results = <<>>
  /\ ret = [value |-> Nil, err |-> NoErr]
  /\ started = <<>>
  /\ forkPre = EmptyMap
  /\ forkRet = "none"
  /\ finished = <<>>
  /\ failedAt = <<>>
  /\ requests = <<>>
  /\ ev = Nil
  /\ ChatStart("off", <<>>)

\* ------------------------------------------------------------------ entry points
\* an entry point that drops the parser's error
ParseFailedNever(src) == FALSE

\* workflowDef, err := parser.FromJSONSource(...); err != nil
ParseFailed(src) == ~src.valid

\* ExecuteServerlessYAMLWorkflow: parses and validates, never executes
ExecuteServerlessYAMLWorkflow ==
  /\ pc = "parse" /\ source.format = "yaml"
  /\ pc' = IF ParseFailed(source) THEN "rejected" ELSE "validated"
  /\ UNCHANGED <<chatvars, ev, requests, source, workflowDef, workflowState, stack, futures, fi, results, ret, started, forkPre,
                 forkRet, finished, failedAt>>

\* ExecuteServerlessJSONWorkflow up to its call of executeWorkflowDefinition,
\* and executeWorkflowDefinition up to its call of executeTasks
ExecuteServerlessJSONWorkflow ==
  /\ pc = "parse" /\ source.format = "json"
  /\ IF ParseFailed(source)
       THEN /\ pc' = "rejected"
            /\ UNCHANGED <<workflowDef, stack>>
       ELSE /\ pc' = "run"
            /\ workflowDef' = source.def
            /\ stack' = IF source.def.hasDo THEN <<Frame(source.def.do, EmptyMap)>> ELSE <<>>
  /\ UNCHANGED <<chatvars, ev, requests, source, workflowState, futures, fi, results, ret, started, forkPre, forkRet, finished,
                 failedAt>>

\* what the entry point returns: (bool, error) for YAML, (map, error) for JSON
Returned ==
  CASE pc = "rejected" /\ source.format = "yaml" -> [value |-> FALSE, err |-> ErrInvalidYAML(ErrParse)]
    [] pc = "validated" -> [value |-> TRUE, err |-> NoErr]
    [] pc = "rejected" /\ source.format = "json" -> [value |-> Nil, err |-> ErrInvalidJSON(ErrParse)]
    [] pc = "done" /\ ret.err # NoErr -> [value |-> Nil, err |-> ErrExecution(ret.err)]
    [] pc = "done" /\ ret.err = NoErr -> ret
    [] OTHER -> Nil

\* ------------------------------------------------------------------ dispatcher
Top == stack[Len(stack)]
Item == Top.list[Top.i]
HasItem == pc = "run" /\ Len(stack) > 0 /\ Top.i <= Len(Top.list)
Path == [k \in 1..Len(stack) |-> stack[k].i]

\* a dispatcher that records a result under the task's Key only
RecordKeyOnly(st, i, key, result) == Put(st, key, result)

\* executeTasks: state[fmt.Sprintf("task_%d_result", i)] = result; state[taskItem.Key] = result
Record(st, i, key, result) == Put(Put(st, Alias(i), result), key, result)

\* a loop that sets lastResult in its first iteration only
CompletedKeepFirst(stk, result) ==
  LET top == stk[Len(stk)]
  IN [stk EXCEPT ![Len(stk)] = [@ EXCEPT !.i = @ + 1, !.last = IF top.results = <<>> THEN result ELSE top.last,
                                         !.results = Append(@, result)]]

\* executeTasks: lastResult = result, and the loop moves to the next item
Completed(stk, result) ==
  [stk EXCEPT ![Len(stk)] = [@ EXCEPT !.i = @ + 1, !.last = result, !.results = Append(@, result)]]

\* executeTasks: fmt.Errorf("task %d (%s) failed: %w", ...) in every active call, innermost first
RECURSIVE WrapFrames(_, _, _)
WrapFrames(stk, n, e) ==
  IF n = 0 THEN e
  ELSE WrapFrames(stk, n - 1, ErrTask(stk[n].i - 1, stk[n].list[stk[n].i].key, e))

\* an executeWorkflowDefinition that hands the State back together with the error
FailureReturnState(st, e) == [value |-> Obj(st), err |-> e]

\* executeWorkflowDefinition: return nil, err
FailureReturn(st, e) == [value |-> Nil, err |-> e]

\* a loop that logs the error of an item and goes on with the next one
AbortSkip(e) ==
  /\ pc' = "run"
  /\ ret' = ret
  /\ workflowState' = workflowState
  /\ stack' = [stack EXCEPT ![Len(stack)] = [@ EXCEPT !.i = @ + 1]]

\* an error path that throws the State away before it returns
AbortDiscard(e) ==
  /\ pc' = "done"
  /\ ret' = [value |-> Nil, err |-> WrapFrames(stack, Len(stack), e)]
  /\ workflowState' = EmptyMap
  /\ stack' = stack

\* an item's error leaves every executeTasks loop and executeWorkflowDefinition
Abort(e) ==
  /\ pc' = "done"
  /\ ret' = FailureReturn(workflowState, WrapFrames(stack, Len(stack), e))
  /\ UNCHANGED <<workflowState, stack>>

executeSetTaskItem ==
  /\ HasItem /\ Item.kind = "set"
  /\ LET result == Obj(Item.set)
     IN /\ workflowState' = Record(CopyInto(workflowState, Item.set), Top.i - 1, Item.key, result)
        /\ stack' = Completed(stack, result)
  /\ started' = Append(started, Path)
  /\ UNCHANGED <<chatvars, ev, requests, source, workflowDef, pc, futures, fi, results, ret, forkPre, forkRet, finished, failedAt>>

\* executeHTTPTask: one ExecuteActivity(HTTPCallActivity, req) and its Get
executeHTTPTask ==
  /\ HasItem /\ Item.kind = "call"
  /\ LET req == HTTPCallRequest(Item.with)
     IN \E o \in HTTPCallActivity(req) :
          /\ requests' = IssueRequest(requests, [path |-> Path, item |-> Item, req |-> req,
                                                 st |-> workflowState, outcome |-> o])
          /\ IF o.ok
               THEN /\ workflowState' = Record(workflowState, Top.i - 1, Item.key, o.result)
                    /\ stack' = Completed(stack, o.result)
                    /\ UNCHANGED <<pc, ret, failedAt>>
               ELSE Abort(ErrHTTPCall(o.err)) /\ failedAt' = Path
  /\ started' = Append(started, Path)
  /\ UNCHANGED <<chatvars, ev, source, workflowDef, futures, fi, results, forkPre, forkRet, finished>>

\* executeTaskItem: no As*Task method matched
executeTaskItemUnsupported ==
  /\ HasItem /\ Item.kind \notin {"call", "fork", "set", "do"}
  /\ Abort(ErrUnsupported(Item.key))
  /\ failedAt' = Path
  /\ started' = Append(started, Path)
  /\ UNCHANGED <<chatvars, ev, requests, source, workflowDef, futures, fi, results, forkPre, forkRet, finished>>

executeDoTask ==
  /\ HasItem /\ Item.kind = "do"
  /\ stack' = Append(stack, Frame(Item.do, workflowState))
  /\ started' = Append(started, Path)
  /\ UNCHANGED <<chatvars, ev, requests, source, workflowDef, workflowState, pc, futures, fi, results, ret, forkPre, forkRet, finished,
                 failedAt>>

\* a Do task that runs its body on a copy of the State and drops the copy
DoStateCopy(st, entry) == entry

\* executeDoTask passes its own map to executeTasks: what the body wrote is
\* in the caller's State when the body returns
DoState(st, entry) == st

\* executeTasks of a Do body returns lastResult to the enclosing executeTasks
executeDoTaskReturn ==
  /\ pc = "run" /\ Len(stack) > 1 /\ Top.i > Len(Top.list)
  /\ LET outer == SubSeq(stack, 1, Len(stack) - 1)
         parent == outer[Len(outer)]
     IN /\ workflowState' = Record(DoState(workflowState, Top.entry), parent.i - 1,
                                   parent.list[parent.i].key, Top.last)
        /\ stack' = Completed(outer, Top.last)
  /\ UNCHANGED <<chatvars, ev, requests, source, workflowDef, pc, futures, fi, results, ret, started, forkPre, forkRet, finished,
                 failedAt>>

\* executeWorkflowDefinition after executeTasks returned without error, or with a nil Do
executeWorkflowDefinitionReturn ==
  /\ pc = "run"
  /\ \/ /\ Len(stack) = 1 /\ Top.i > Len(Top.list)
        /\ workflowState' = Put(workflowState, "result", Top.last)
     \/ /\ Len(stack) = 0
        /\ workflowState' = workflowState
  /\ ret' = [value |-> Obj(workflowState'), err |-> NoErr]
  /\ pc' = "done"
  /\ UNCHANGED <<chatvars, ev, requests, source, workflowDef, stack, futures, fi, results, started, forkPre, forkRet, finished,
                 failedAt>>

\* ------------------------------------------------------------------ fork
\* workflow.ExecuteActivity encodes its arguments when it is called: the
\* request carries the State as it is at the fork point
Snapshot(st) == JSONRoundTrip(Obj(st)).obj

\* an activity that starts from an empty branchState
ActivityFresh(item, snap) ==
  [item |-> item, snap |-> snap, st |-> EmptyMap, j |-> 1, last |-> Null,
   status |-> "running", result |-> Null, err |-> NoErr, writes |-> <<>>, calls |-> <<>>]

\* ExecuteBranchActivity at its start: branchState is a copy of req.State
Activity(item, snap) ==
  [item |-> item, snap |-> snap, st |-> CopyInto(EmptyMap, snap), j |-> 1, last |-> Null,
   status |-> "running", result |-> Null, err |-> NoErr, writes |-> <<>>, calls |-> <<>>]

\* a check that tests the pointer only
NoBranchesNilOnly(item) == item.nilBranches

\* forkTask.Fork.Branches == nil || len(*forkTask.Fork.Branches) == 0
NoBranches(item) == item.nilBranches \/ Len(item.branches) = 0

\* a join that copies every branch's output State into the parent State
RECURSIVE AfterJoinMerge(_, _)
AfterJoinMerge(st, rs) ==
  IF rs = <<>> THEN st
  ELSE CopyInto(AfterJoinMerge(st, SubSeq(rs, 1, Len(rs) - 1)), rs[Len(rs)].obj["state"].obj)

\* executeForkTaskItem never writes the parent State
AfterJoin(st, rs) == st

\* a join that waits for the futures from the last declared branch to the first
NextFutureReversed(i, fin) == Len(futures) + 1 - i

\* a join that takes the futures in the order in which they complete
NextFutureByCompletion(i, fin) == IF i <= Len(fin) THEN fin[i] ELSE 0

\* the future the join loop waits for in its i-th iteration
NextFuture(i, fin) == i

\* a join loop that drops the error of future.Get
GetFailedNever(f) == FALSE

\* future.Get returned an error
GetFailed(f) == f.status = "err"

executeForkTaskItem ==
  /\ HasItem /\ Item.kind = "fork"
  /\ IF NoBranches(Item)
       THEN /\ Abort(ErrNoBranches)
            /\ failedAt' = Path
            /\ UNCHANGED <<futures, fi, results, forkPre, forkRet, finished>>
       ELSE /\ futures' = [b \in 1..Len(Item.branches) |-> Activity(Item.branches[b], Snapshot(workflowState))]
            /\ fi' = 1
            /\ results' = <<>>
            /\ pc' = "fork"
            /\ forkPre' = workflowState
            /\ forkRet' = "waiting"
            /\ finished' = <<>>
            /\ UNCHANGED <<workflowState, stack, ret, failedAt>>
  /\ started' = Append(started, Path)
  /\ UNCHANGED <<chatvars, ev, requests, source, workflowDef>>

\* one iteration of the join loop: future.Get(ctx, &result)
futureGet ==
  /\ pc = "fork"
  /\ LET g == NextFuture(fi, finished)
         f == futures[g]
     IN /\ g \in DOMAIN futures
        /\ f.status # "running"
        /\ IF GetFailed(f)
             THEN /\ Abort(ErrBranch(fi - 1, f.err))
                  /\ forkRet' = "err"
                  /\ failedAt' = Path
                  /\ UNCHANGED <<fi, results>>
             ELSE LET rs == Append(results, JSONRoundTrip(f.result))
                  IN /\ results' = rs
                     /\ IF fi < Len(futures)
                          THEN /\ fi' = fi + 1
                               /\ UNCHANGED <<workflowState, stack, pc, ret, forkRet, failedAt>>
                          ELSE /\ workflowState' =
                                    Record(AfterJoin(workflowState, rs), Top.i - 1, Item.key, Arr(rs))
                               /\ stack' = Completed(stack, Arr(rs))
                               /\ pc' = "run"
                               /\ forkRet' = "ok"
                               /\ UNCHANGED <<fi, ret, failedAt>>
  /\ UNCHANGED <<chatvars, ev, requests, source, workflowDef, futures, started, forkPre, finished>>

\* ------------------------------------------------------------------ branch activity
Running(b) == b \in DOMAIN futures /\ futures[b].status = "running"

\* branches that all write into one shared map
BranchStoreShared(fs, b, st) == [x \in DOMAIN fs |-> [fs[x] EXCEPT !.st = st]]

\* branchState is local to the activity that owns it
BranchStore(fs, b, st) == [fs EXCEPT ![b].st = st]

\* ExecuteBranchActivity returns its result map
BranchReturn(fs, b, last) ==
  [fs EXCEPT ![b].status = "ok", ![b].last = last,
             ![b].result = Obj([k \in {"branch_result", "task_count", "state"} |->
                                 CASE k = "branch_result" -> last
                                   [] k = "task_count" -> Num(1)
                                   [] OTHER -> Obj(fs[b].st)])]

\* a branch that swallows the error of its task and returns nil
BranchFailAsNull(fs, b, e) == BranchReturn(fs, b, Null)

\* ExecuteBranchActivity returns nil and the error of its task
BranchFail(fs, b, e) == [fs EXCEPT ![b].status = "err", ![b].err = e]

Wrote(fs, b, m) == [fs EXCEPT ![b].writes = Append(@, m)]

\* history: the requests a branch handed to executeRegularHTTPCall
Called(fs, b, it, req, o) ==
  [fs EXCEPT ![b].calls = IssueRequest(fs[b].calls, [item |-> it, req |-> req, st |-> fs[b].st,
                                                     outcome |-> o])]

BranchSteps(fs) ==
  /\ futures' = fs
  /\ UNCHANGED <<chatvars, ev, requests, source, workflowDef, workflowState, stack, pc, fi, results, ret, started, forkPre, forkRet,
                 failedAt>>

\* ExecuteBranchActivity, the branch's item is a Set task
executeBranchSetTask(b) ==
  /\ Running(b) /\ futures[b].item.kind = "set"
  /\ LET it == futures[b].item
         result == Obj(it.set)
         st1 == CopyInto(futures[b].st, it.set)
         st2 == Put(st1, it.key, result)
         fs1 == Wrote(BranchStore(futures, b, st2), b, Put(it.set, it.key, result))
     IN BranchSteps(BranchReturn(fs1, b, result))
  /\ finished' = Append(finished, b)

\* ExecuteBranchActivity, the branch's item is an HTTP call
executeBranchHTTPTask(b) ==
  /\ Running(b) /\ futures[b].item.kind = "call"
  /\ LET it == futures[b].item
         req == HTTPCallRequest(it.with)
     IN \E o \in executeRegularHTTPCall(req) :
          LET fs0 == Called(futures, b, it, req, o)
          IN IF o.ok
               THEN LET fs1 == Wrote(BranchStore(fs0, b, Put(futures[b].st, it.key, o.result)), b,
                                     Put(EmptyMap, it.key, o.result))
                    IN BranchSteps(BranchReturn(fs1, b, o.result))
               ELSE BranchSteps(BranchFail(fs0, b, ErrBranchTask(it.key, o.err)))
  /\ finished' = Append(finished, b)

\* ExecuteBranchActivity, the branch's item is neither Do, HTTP call nor Set
executeBranchUnsupported(b) ==
  /\ Running(b) /\ futures[b].item.kind \notin {"do", "call", "set"}
  /\ LET it == futures[b].item
     IN BranchSteps(BranchFail(futures, b, ErrBranchTask(it.key, ErrBranchUnsupported(it.key))))
  /\ finished' = Append(finished, b)

\* executeBranchDoTask: one iteration of the loop over the nested items
executeBranchDoTask(b) ==
  /\ Running(b) /\ futures[b].item.kind = "do" /\ futures[b].j <= Len(futures[b].item.do)
  /\ LET it == futures[b].item
         nested == it.do[futures[b].j]
         next(fs, result) == [fs EXCEPT ![b].j = @ + 1, ![b].last = result]
         failFrom(fs, e) == /\ BranchSteps(BranchFail(fs, b, ErrBranchTask(it.key, ErrNestedTask(nested.key, e))))
                            /\ finished' = Append(finished, b)
         fail(e) == failFrom(futures, e)
     IN CASE nested.kind = "set" ->
               LET result == Obj(nested.set)
                   st2 == Put(CopyInto(futures[b].st, nested.set), nested.key, result)
               IN /\ BranchSteps(next(Wrote(BranchStore(futures, b, st2), b,
                                            Put(nested.set, nested.key, result)), result))
                  /\ UNCHANGED finished
          [] nested.kind = "call" ->
               LET req == HTTPCallRequest(nested.with)
               IN \E o \in executeRegularHTTPCall(req) :
                    LET fs0 == Called(futures, b, nested, req, o)
                    IN IF o.ok
                         THEN LET st2 == Put(futures[b].st, nested.key, o.result)
                              IN /\ BranchSteps(next(Wrote(BranchStore(fs0, b, st2), b,
                                                           Put(EmptyMap, nested.key, o.result)), o.result))
                                 /\ UNCHANGED finished
                         ELSE failFrom(fs0, ErrRequest)
          [] OTHER -> fail(ErrNestedUnsupported(nested.key))

\* executeBranchDoTask returned lastResult: the branch records it and returns
executeBranchDoReturn(b) ==
  /\ Running(b) /\ futures[b].item.kind = "do" /\ futures[b].j > Len(futures[b].item.do)
  /\ LET it == futures[b].item
         result == futures[b].last
         fs1 == Wrote(BranchStore(futures, b, Put(futures[b].st, it.key, result)), b,
                      Put(EmptyMap, it.key, result))
     IN BranchSteps(BranchReturn(fs1, b, result))
  /\ finished' = Append(finished, b)

ExecuteBranchActivity ==
  \E b \in 1..MaxBranches :
    \/ executeBranchSetTask(b)
    \/ executeBranchHTTPTask(b)
    \/ executeBranchUnsupported(b)
    \/ executeBranchDoTask(b)
    \/ executeBranchDoReturn(b)

Next ==
  \/ ExecuteServerlessYAMLWorkflow
  \/ ExecuteServerlessJSONWorkflow
  \/ executeSetTaskItem
  \/ executeHTTPTask
  \/ executeTaskItemUnsupported
  \/ executeDoTask
  \/ executeDoTaskReturn
  \/ executeWorkflowDefinitionReturn
  \/ executeForkTaskItem
  \/ futureGet
  \/ ExecuteBranchActivity

Spec == Init /\ [][Next]_vars

\* ------------------------------------------------------------------ expression evaluation
\* the evaluator and isTruthy called on their own, as the table tests call them
ExprKeys == {"status", "nonexistent"}
Literals == {"active", ""}

\* the values a context may hold under "status"
SampleValues ==
  {Null, Bool(TRUE), Bool(FALSE), Str(""), Str("active"), Str("hello"), Flt(0, 0), Flt(3, 14),
   Arr(<<>>), Arr(<<Num(1)>>), Obj(EmptyMap), Obj(Put(EmptyMap, "key", Str("value"))),
   HTTPCallResult(200, Null)}
  \cup {Num(n) : n \in (0 - MaxVal)..MaxVal}

Contexts == {EmptyMap} \cup {Put(EmptyMap, "status", v) : v \in SampleValues}

\* the inner forms: a bare path, an equality against a literal, an equality without its literal
ExprForms ==
  {[kind |-> k, key |-> key, lit |-> "", dot |-> d] : k \in {"path", "bad"}, key \in ExprKeys, d \in BOOLEAN}
  \cup {[kind |-> "eq", key |-> key, lit |-> l, dot |-> d] : key \in ExprKeys, l \in Literals, d \in BOOLEAN}

\* the text of an inner form
Inner(f) ==
  (IF f.dot THEN <<Dot>> ELSE <<>>)
  \o (CASE f.kind = "path" -> <<Id(f.key)>>
        [] f.kind = "eq" -> <<Id(f.key), EqEq, Lit(f.lit)>>
        [] OTHER -> <<Id(f.key), EqEq>>)

\* the same form with its leading dot added or removed
OtherDot(f) == [f EXCEPT !.dot = ~@]

\* the interpreter's variables, and the interpreter before it is started
wfvarsOnly == <<requests, source, workflowDef, workflowState, stack, pc, futures, fi, results, ret,
                started, forkPre, forkRet, finished, failedAt>>
WorkflowOff ==
  /\ source = Nil
  /\ workflowDef = Nil
  /\ workflowState = EmptyMap
  /\ stack = <<>>
  /\ pc = "idle"
  /\ futures = <<>>
  /\ fi = 0
  /\ results = <<>>
  /\ ret = [value |-> Nil, err |-> NoErr]
  /\ started = <<>>
  /\ forkPre = EmptyMap
  /\ forkRet = "none"
  /\ finished = <<>>
  /\ failedAt = <<>>
  /\ requests = <<>>

wfvars == <<chatvars, requests, source, workflowDef, workflowState, stack, pc, futures, fi, results, ret,
            started, forkPre, forkRet, finished, failedAt>>

InitExpr ==
  /\ ev \in {[form |-> f, ctx |-> c, plain |-> Nil, wrapped |-> Nil, flipped |-> Nil, truthy |-> Nil] :
               f \in ExprForms, c \in Contexts}
  /\ source = Nil
  /\ workflowDef = Nil
  /\ workflowState = EmptyMap
  /\ stack = <<>>
  /\ pc = "idle"
  /\ futures = <<>>
  /\ fi = 0
  /\ results = <<>>
  /\ ret = [value |-> Nil, err |-> NoErr]
  /\ started = <<>>
  /\ forkPre = EmptyMap
  /\ forkRet = "none"
  /\ finished = <<>>
  /\ failedAt = <<>>
  /\ requests = <<>>
  /\ ChatStart("off", <<>>)

\* evaluateSimpleExpression(".orderType", context)
EvaluateInner ==
  /\ ev.plain = Nil
  /\ ev' = [ev EXCEPT !.plain = evaluateSimpleExpression(Inner(ev.form), ev.ctx)]
  /\ UNCHANGED wfvars

\* evaluateSimpleExpression("${.orderType}", context)
EvaluateTemplate ==
  /\ ev.wrapped = Nil
  /\ ev' = [ev EXCEPT !.wrapped = evaluateSimpleExpression(Template(Inner(ev.form)), ev.ctx)]
  /\ UNCHANGED wfvars

\* evaluateSimpleExpression("orderType", context) next to ".orderType"
EvaluateOtherDot ==
  /\ ev.flipped = Nil
  /\ ev' = [ev EXCEPT !.flipped = evaluateSimpleExpression(Inner(OtherDot(ev.form)), ev.ctx)]
  /\ UNCHANGED wfvars

\* boolResult := isTruthy(result)
ExpressionToBoolean ==
  /\ ev.plain # Nil /\ ev.plain.ok /\ ev.truthy = Nil
  /\ ev' = [ev EXCEPT !.truthy = Bool(isTruthy(ev.plain.value))]
  /\ UNCHANGED wfvars

NextExpr ==
  \/ EvaluateInner
  \/ EvaluateTemplate
  \/ EvaluateOtherDot
  \/ ExpressionToBoolean

SpecExpr == InitExpr /\ [][NextExpr]_vars

\* ------------------------------------------------------------------ chatbot workflow
maxRetries == 4        \* maxRetries := 4
TimeoutMinutes == 10   \* ReceiveWithTimeout(ctx, 10*time.Minute, ...)
MaxSignals == 2        \* signals that clients other than SendChatMessage send

\* the text of a message: a user's input, a reply of the model to that input,
\* the apology and the correction prompt
InputText(id) == [kind |-> "input", of |-> id]
ReplyText(id) == [kind |-> "reply", of |-> id]
ApologyText == [kind |-> "apology", of |-> 0]
CorrectionText == [kind |-> "correction", of |-> 0]

NewUserMessage(text) == [role |-> "user", text |-> text]
NewAssistantMessage(text) == [role |-> "assistant", text |-> text]

\* what CallClaudeAPI can return: an error, or a message whose first content
\* block is text or not, with a yaml and a json code block that is absent,
\* accepted or rejected by the parser
ClaudeResponses ==
  {[hasText |-> t, yaml |-> y, json |-> j] :
     t \in BOOLEAN, y \in {"none", "valid", "invalid"}, j \in {"none", "invalid"}}
CallClaudeAPIOutcomes ==
  {[ok |-> FALSE, response |-> Nil]} \cup {[ok |-> TRUE, response |-> r] : r \in ClaudeResponses}

\* validateWorkflowInResponse: the yaml block, else the json block, parsed as YAML
validateWorkflowInResponse(response, format) ==
  LET codeBlock == IF ~response.hasText THEN "none"
                   ELSE IF format = "yaml" /\ response.yaml # "none" THEN response.yaml
                   ELSE response.json
  IN [hasWorkflow |-> codeBlock # "none", isValid |-> codeBlock = "valid"]

\* the outcome of one call as the retry loop tells it apart
OutcomeClass(o) ==
  IF ~o.ok THEN "error"
  ELSE LET v == validateWorkflowInResponse(o.response, "yaml")
       IN IF v.isValid THEN "valid" ELSE IF v.hasWorkflow THEN "invalid" ELSE "none"

\* a conversation in which a new message takes the place of the last one
AppendMessageOverLast(conv, m) ==
  IF conv = <<>> THEN <<m>> ELSE [conv EXCEPT ![Len(conv)] = m]

\* state.Conversation = append(state.Conversation, m)
AppendMessage(conv, m) == Append(conv, m)

\* a loop that asks again after every response that is not a valid workflow
RetriesUnlessValid(v) == ~v.isValid

\* else if validationResult.HasWorkflow: the response is followed by a correction prompt and a retry
Retries(v) == ~v.isValid /\ v.hasWorkflow

\* a retry loop that never clears the flag after an invalid workflow
StillProcessingAlways(r) == TRUE

\* if retry == maxRetries-1 { state.IsProcessing = false }
StillProcessing(r) == r # maxRetries - 1

\* an error path that goes on with the next iteration of the retry loop
AfterFailureContinue(r) == IF r + 1 < maxRetries THEN "call" ELSE "wait"

\* the error path ends with break: the workflow waits for the next signal
AfterFailure(r) == "wait"

\* a timer that goes on from where the last wait stopped
StartTimerResumed(t) == t

\* every ReceiveWithTimeout starts its own timer
StartTimer(t) == 0

\* the ChatbotState the query handler and the return statement hand out
ChatbotState == [conversation |-> conversation, isProcessing |-> isProcessing]

\* ReceiveWithTimeout returns true: the signal is taken and its handling begins
ReceiveSignal ==
  /\ chatPc = "wait" /\ signalCh # <<>> /\ timer < TimeoutMinutes
  /\ userInput' = Head(signalCh)
  /\ signalCh' = Tail(signalCh)
  /\ isProcessing' = TRUE
  /\ conversation' = AppendMessage(conversation, NewUserMessage(InputText(Head(signalCh))))
  /\ retry' = 0
  /\ chatPc' = "call"
  /\ apiLog' = Append(apiLog, <<>>)
  /\ UNCHANGED <<timer, idle, chatRet, sent, handler, ev, wfvarsOnly>>

\* a minute passes while the workflow waits and no signal has arrived
TimerTick ==
  /\ chatPc = "wait" /\ signalCh = <<>> /\ timer < TimeoutMinutes
  /\ timer' = timer + 1
  /\ idle' = idle + 1
  /\ UNCHANGED <<conversation, isProcessing, chatPc, userInput, retry, signalCh, chatRet, apiLog, sent,
                 handler, ev, wfvarsOnly>>

\* ReceiveWithTimeout returns false: the loop ends and the workflow returns its state
ReceiveTimeout ==
  /\ chatPc = "wait" /\ timer = TimeoutMinutes
  /\ chatPc' = "completed"
  /\ chatRet' = ChatbotState
  /\ UNCHANGED <<conversation, isProcessing, userInput, retry, signalCh, timer, apiLog, idle, sent,
                 handler, ev, wfvarsOnly>>

\* one iteration of the retry loop, from the return of ExecuteActivity(CallClaudeAPI).Get
CallClaudeAPI ==
  /\ chatPc = "call"
  /\ \E o \in CallClaudeAPIOutcomes :
       LET again(next) == /\ chatPc' = next
                          /\ retry' = IF next = "call" THEN retry + 1 ELSE retry
                          /\ timer' = IF next = "wait" THEN StartTimer(timer) ELSE timer
                          /\ idle' = IF next = "wait" THEN 0 ELSE idle
           reply == NewAssistantMessage(ReplyText(userInput))
       IN /\ apiLog' = [apiLog EXCEPT ![Len(apiLog)] = Append(@, OutcomeClass(o))]
          /\ IF ~o.ok
               THEN /\ conversation' = AppendMessage(conversation, NewAssistantMessage(ApologyText))
                    /\ isProcessing' = FALSE
                    /\ again(AfterFailure(retry))
               ELSE LET v == validateWorkflowInResponse(o.response, "yaml")
                    IN IF v.isValid
                         THEN /\ conversation' = AppendMessage(conversation, reply)
                              /\ isProcessing' = FALSE
                              /\ again("wait")
                       ELSE IF Retries(v)
                         THEN /\ conversation' = AppendMessage(AppendMessage(conversation, reply),
                                                               NewUserMessage(CorrectionText))
                              /\ isProcessing' = StillProcessing(retry)
                              /\ again(IF retry + 1 < maxRetries THEN "call" ELSE "wait")
                       ELSE /\ conversation' = AppendMessage(conversation, reply)
                            /\ isProcessing' = FALSE
                            /\ again("wait")
  /\ UNCHANGED <<userInput, signalCh, chatRet, sent, handler, ev, wfvarsOnly>>

\* a client signals "user-input" to the running workflow
SignalWorkflow ==
  /\ chatPc \in {"wait", "call"} /\ sent < MaxSignals
  /\ sent' = sent + 1
  /\ signalCh' = Append(signalCh, sent + 1)
  /\ UNCHANGED <<conversation, isProcessing, chatPc, userInput, retry, timer, chatRet, apiLog, idle,
                 handler, ev, wfvarsOnly>>

InitChat ==
  /\ ChatStart("wait", <<>>)
  /\ ev = Nil
  /\ WorkflowOff

NextChat ==
  \/ ReceiveSignal
  \/ TimerTick
  \/ ReceiveTimeout
  \/ CallClaudeAPI
  \/ SignalWorkflow

SpecChat == InitChat /\ [][NextChat]_vars

\* time passes while the workflow waits, and the host runs the workflow when
\* the timer of ReceiveWithTimeout has fired
SpecChatFair == SpecChat /\ WF_vars(TimerTick) /\ WF_vars(ReceiveTimeout)

(***************************************************************************)
(* SendChatMessage: the HTTP handler that signals a message to the chatbot *)
(* workflow of a thread and polls its state for the reply.                 *)
(***************************************************************************)

MaxPolls == 30         \* for i := 0; i < 30; i++

\* the requests that are served at the same time for one thread: those whose
\* handler is followed to its return, and those followed up to their poll loop
Requests == {1}
OtherRequests == {2}

\* the message request r sends
RequestMessage(r) == r

PlaceholderText == [kind |-> "placeholder", of |-> 0]
EmptyText == [kind |-> "empty", of |-> 0]
ErrorText == [kind |-> "error500", of |-> 0]

\* a request before its first statement
NewRequest == [pc |-> "start", initialLength |-> 0, i |-> 0, response |-> Nil, seen |-> Nil]

\* a handler that answers as soon as the conversation has grown
ResponseReadyWhenGrown(state, initialLength) ==
  Len(state.conversation) >= initialLength + 2

\* len(currentState.Conversation) >= initialLength+2 && !currentState.IsProcessing
ResponseReady(state, initialLength) ==
  Len(state.conversation) >= initialLength + 2 /\ ~state.isProcessing

\* the text the handler answers with: that of the last message when it is the assistant's
ResponseText(state) ==
  LET lastMessage == state.conversation[Len(state.conversation)]
  IN IF lastMessage.role = "assistant" THEN lastMessage.text ELSE EmptyText

\* QueryWorkflow("get-state") answers for a workflow that runs or has
\* completed, with the state the workflow has once it has run as far as it
\* can: a query that finds a signal or a fired timer not yet handled is
\* answered after the workflow has handled it
Queryable ==
  \/ chatPc \in {"call", "completed"}
  \/ chatPc = "wait" /\ signalCh = <<>> /\ timer < TimeoutMinutes

\* the query before the signal: initialLength := len(initialState.Conversation)
QueryInitialState(r) ==
  /\ handler[r].pc = "start"
  /\ \/ /\ Queryable
        /\ handler' = [handler EXCEPT ![r].pc = "signal",
                                      ![r].initialLength = Len(ChatbotState.conversation)]
     \/ handler' = [handler EXCEPT ![r].pc = "failed", ![r].response = ErrorText]
  /\ UNCHANGED <<conversation, isProcessing, chatPc, userInput, retry, signalCh, timer, chatRet,
                 apiLog, idle, sent, ev, wfvarsOnly>>

\* SignalWorkflow("user-input"): accepted by a running workflow only
SendUserInput(r) ==
  /\ handler[r].pc = "signal"
  /\ IF chatPc \in {"wait", "call"}
       THEN /\ signalCh' = Append(signalCh, RequestMessage(r))
            /\ handler' = [handler EXCEPT ![r].pc = "poll"]
       ELSE /\ handler' = [handler EXCEPT ![r].pc = "failed", ![r].response = ErrorText]
            /\ UNCHANGED signalCh
  /\ UNCHANGED <<conversation, isProcessing, chatPc, userInput, retry, timer, chatRet,
                 apiLog, idle, sent, ev, wfvarsOnly>>

\* one iteration of the poll loop: the query, the test, the answer or the sleep
PollState(r) ==
  /\ handler[r].pc = "poll" /\ handler[r].i < MaxPolls
  /\ \/ /\ Queryable
        /\ IF ResponseReady(ChatbotState, handler[r].initialLength)
             THEN handler' = [handler EXCEPT ![r].pc = "done",
                                             ![r].i = @ + 1,
                                             ![r].seen = [len |-> Len(conversation),
                                                          isProcessing |-> isProcessing],
                                             ![r].response = ResponseText(ChatbotState)]
             ELSE handler' = [handler EXCEPT ![r].i = @ + 1]
     \/ handler' = [handler EXCEPT ![r].pc = "failed", ![r].i = @ + 1, ![r].response = ErrorText]
  /\ UNCHANGED <<conversation, isProcessing, chatPc, userInput, retry, signalCh, timer, chatRet,
                 apiLog, idle, sent, ev, wfvarsOnly>>

\* the loop ends without an answer: the placeholder is returned
PollTimeout(r) ==
  /\ handler[r].pc = "poll" /\ handler[r].i = MaxPolls
  /\ handler' = [handler EXCEPT ![r].pc = "done", ![r].response = PlaceholderText]
  /\ UNCHANGED <<conversation, isProcessing, chatPc, userInput, retry, signalCh, timer, chatRet,
                 apiLog, idle, sent, ev, wfvarsOnly>>

SendChatMessage(r) ==
  \/ QueryInitialState(r)
  \/ SendUserInput(r)
  \/ PollState(r)
  \/ PollTimeout(r)

\* the requests arrive at a workflow that waits for its first signal, either
\* with its timer running or with its timer fired; the requests last seconds,
\* so that no further minute of the timer passes while they are served
InitSend ==
  /\ conversation = <<>> /\ isProcessing = FALSE /\ chatPc = "wait"
  /\ userInput = 0 /\ retry = 0 /\ signalCh = <<>>
  /\ timer \in {0, TimeoutMinutes} /\ idle = timer
  /\ chatRet = Nil /\ apiLog = <<>> /\ sent = 0
  /\ handler = [r \in Requests \cup OtherRequests |-> NewRequest]
  /\ ev = Nil
  /\ WorkflowOff

NextSend ==
  \/ ReceiveSignal
  \/ ReceiveTimeout
  \/ CallClaudeAPI
  \/ \E r \in Requests : SendChatMessage(r)
  \/ \E r \in OtherRequests : QueryInitialState(r) \/ SendUserInput(r)

SpecSend == InitSend /\ [][NextSend]_vars

\* a handler that has not returned goes on, and the host runs a workflow
\* that has a signal or a fired timer to handle
SpecSendFair ==
  /\ SpecSend
  /\ \A r \in Requests : WF_vars(SendChatMessage(r))
  /\ WF_vars(ReceiveSignal)
  /\ WF_vars(ReceiveTimeout)

\* ------------------------------------------------------------------ properties
ForkReturned == forkRet \in {"ok", "err"}

\* the map m has the entry k -> v
Holds(m, k, v) == k \in DOMAIN m /\ m[k] = v

\* for key, value := range m, applied for each recorded write in turn
RECURSIVE ApplyWrites(_, _)
ApplyWrites(st, ws) ==
  IF ws = <<>> THEN st ELSE CopyInto(ApplyWrites(st, SubSeq(ws, 1, Len(ws) - 1)), ws[Len(ws)])

\* C1: when every branch of a Fork with n >= 1 branches succeeds, the Fork's
\* result is an array of length n whose i-th element is what the i-th
\* declared branch returned, whatever the order in which the branches ended.
C1_ForkResultsInDeclarationOrder ==
  forkRet = "ok" =>
    /\ Len(futures) >= 1
    /\ Len(results) = Len(futures)
    /\ \A i \in DOMAIN futures :
         /\ futures[i].status = "ok"
         /\ results[i] = JSONRoundTrip(futures[i].result)
         /\ results[i].obj["branch_result"] = JSONRoundTrip(futures[i].last)

\* a Fork returned its results although its last declared branch ended first
C1_Witness ==
  /\ forkRet = "ok" /\ Len(futures) >= 2
  /\ finished[1] = Len(futures)
  /\ results[1] # results[2]

\* C2: a branch never reads what a sibling wrote: at every moment the State
\* of a branch is the snapshot taken at the fork point overwritten by that
\* branch's own writes, and the State it returns is that same State.
C2_BranchStateIsolated ==
  \A b \in DOMAIN futures :
    /\ futures[b].snap = Snapshot(forkPre)
    /\ futures[b].st = ApplyWrites(futures[b].snap, futures[b].writes)
    /\ futures[b].status = "ok" => futures[b].result.obj["state"] = Obj(futures[b].st)

\* two branches of one Fork have written different values under the same key
C2_Witness ==
  \E b1, b2 \in DOMAIN futures :
    /\ b1 # b2
    /\ futures[b1].writes # <<>> /\ futures[b2].writes # <<>>
    /\ "a" \in DOMAIN futures[b1].writes[1] /\ "a" \in DOMAIN futures[b2].writes[1]
    /\ futures[b1].st["a"] # futures[b2].st["a"]
    /\ futures[b1].status = "running"

\* C3: when a Fork completes, every key of the parent State other than the
\* Fork's own Key and positional alias is present exactly as before the Fork.
C3_ForkLeavesParentState ==
  [][(forkRet = "waiting" /\ forkRet' = "ok") =>
       LET own == {Item.key, Alias(Top.i - 1)}
       IN /\ (DOMAIN workflowState') \ own = (DOMAIN forkPre) \ own
          /\ \A k \in (DOMAIN forkPre) \ own : workflowState'[k] = forkPre[k]
          /\ Holds(workflowState', Item.key, Arr(results'))]_vars

\* a Fork completed whose branch overwrote a key that the parent State holds
C3_Witness ==
  /\ forkRet = "ok" /\ pc = "run"
  /\ "a" \in DOMAIN forkPre
  /\ \E b \in DOMAIN futures : futures[b].st["a"] # forkPre["a"]

\* C4: the Fork returns, with a result array or with an error, only after
\* every one of its branches has finished.
C4_ForkJoinsAllBranches ==
  ForkReturned => \A b \in DOMAIN futures : futures[b].status # "running"

\* C5: if a branch of a Fork has failed when the Fork returns, the Fork
\* fails with an error that wraps a failing branch's error, returns no
\* result array, and records nothing for the Fork in the State.
C5_ForkFailsWithBranchError ==
  (ForkReturned /\ \E b \in DOMAIN futures : futures[b].status = "err") =>
    /\ forkRet = "err" /\ pc = "done"
    /\ ret.value = Nil
    /\ \E b \in DOMAIN futures : futures[b].status = "err" /\ Wraps(ret.err, futures[b].err)
    /\ Wraps(ret.err, ErrBranch(fi - 1, futures[fi].err))
    /\ workflowState = forkPre

\* a Fork failed although some of its branches had returned a result
C5_Witness ==
  /\ forkRet = "err" /\ Len(futures) >= 2
  /\ \E b \in DOMAIN futures : futures[b].status = "ok"
  /\ forkPre # EmptyMap

\* C6: a Fork with a nil or empty branch list fails with the "fork task has
\* no branches" error in the step that reaches it: no branch activity is
\* started and the State is left as it was.
C6_EmptyForkFails ==
  [][(HasItem /\ Item.kind = "fork" /\ (Item.nilBranches \/ Len(Item.branches) = 0)) =>
       /\ pc' = "done"
       /\ RootCause(ret'.err) = ErrNoBranches
       /\ ret'.value = Nil
       /\ workflowState' = workflowState
       /\ futures' = futures /\ forkRet' = forkRet]_vars

\* a Fork with an empty, non-nil branch list failed on a non-empty State
C6_Witness ==
  /\ pc = "done" /\ RootCause(ret.err) = ErrNoBranches
  /\ Item.kind = "fork" /\ ~Item.nilBranches
  /\ workflowState # EmptyMap

\* p is declared after f: in the list of f or in a list that encloses it
After(p, f) ==
  \E k \in 1..Len(p) :
    /\ k <= Len(f)
    /\ \A m \in 1..(k - 1) : p[m] = f[m]
    /\ p[k] > f[k]

\* the indices named by the "task %d (%s) failed" layers of an error
RECURSIVE TaskPath(_)
TaskPath(e) ==
  IF "index" \in DOMAIN e /\ e.msg = "task failed" THEN <<e.index + 1>> \o TaskPath(e.cause) ELSE <<>>

\* C7: when a task item fails, the execution ends with an error naming that
\* item, no item declared after it in its list or in an enclosing list has
\* been executed, and the dispatcher executes nothing afterwards.
C7_FailFast ==
  /\ [](failedAt # <<>> =>
          /\ pc = "done" /\ ret.err # NoErr
          /\ TaskPath(ret.err) = failedAt
          /\ started[Len(started)] = failedAt
          /\ \A q \in DOMAIN started : ~After(started[q], failedAt))
  /\ [][failedAt # <<>> => (started' = started /\ workflowState' = workflowState /\ ret' = ret)]_vars

\* an item failed two Do levels deep while every enclosing list had later items
C7_Witness ==
  /\ failedAt # <<>> /\ Len(failedAt) = 3
  /\ \A k \in 1..2 : stack[k].i < Len(stack[k].list)

\* C8 as stated: the State is returned alongside the error.
C8_StateReturnedWithError ==
  (pc = "done" /\ ret.err # NoErr) => ret.value = Obj(workflowState)

\* C8: when an execution fails, the State map still holds what the completed
\* tasks wrote (the failing step changes nothing, and the keys, aliases and
\* assignments of the completed items are present), but nil is returned
\* alongside the error.
C8_StateKeptButNotReturned ==
  /\ []((pc = "done" /\ ret.err # NoErr) =>
          /\ ret.value = Nil
          /\ \A k \in DOMAIN stack : \A i \in 1..(stack[k].i - 1) :
               /\ {Alias(i - 1), stack[k].list[i].key} \subseteq DOMAIN workflowState
               /\ stack[k].list[i].kind = "set" =>
                    DOMAIN stack[k].list[i].set \subseteq DOMAIN workflowState)
  /\ [][(failedAt = <<>> /\ failedAt' # <<>>) => workflowState' = workflowState]_vars

\* an execution failed in a Do body after a Set task of that body had completed
C8_Witness ==
  /\ pc = "done" /\ ret.err # NoErr
  /\ Len(stack) = 2 /\ stack[2].i = 2
  /\ stack[2].list[1].kind = "set"
  /\ "a" \in DOMAIN workflowState

\* C9: the step in which the dispatcher completes the item at index i with
\* Key K leaves K and task_i_result mapped to that item's result, and the
\* step in which an item fails leaves the State as it was.
C9_ResultRecordedUnderKeyAndAlias ==
  [][/\ (failedAt = <<>> /\ failedAt' # <<>>) => workflowState' = workflowState
     /\ (stack' # stack /\ Len(stack') <= Len(stack)) =>
          LET n == Len(stack')
              it == stack[n].list[stack[n].i]
              r == stack'[n].last
          IN /\ stack'[n].i = stack[n].i + 1
             /\ Holds(workflowState', it.key, r)
             /\ Holds(workflowState', Alias(stack[n].i - 1), r)
             /\ CASE it.kind = "set" -> r = Obj(it.set)
                  [] it.kind = "call" -> "http" \in DOMAIN r
                  [] it.kind = "do" -> r = Top.last
                  [] it.kind = "fork" -> r = Arr(results')
                  [] OTHER -> FALSE]_vars

\* the dispatcher has recorded the result of a Do task with a non-empty body
C9_Witness ==
  /\ pc = "run" /\ Len(stack) = 1 /\ Top.i = 2
  /\ Top.list[1].kind = "do" /\ Len(Top.list[1].do) = 2
  /\ Holds(workflowState, "task_0_result", Top.last)

\* C10: when a task list has finished, task_i_result holds the result of the
\* i-th declared item of that list, for every index i.
C10_AliasesFollowDeclarationOrder ==
  (pc = "run" /\ Len(stack) > 0 /\ Top.i > Len(Top.list)) =>
    \A i \in 1..Len(Top.list) : Holds(workflowState, Alias(i - 1), Top.results[i])

\* the result of the last item a list has executed, nil when it executed none
LastOf(rs) == IF rs = <<>> THEN Null ELSE rs[Len(rs)]

\* C11: the value of a task list is the result of its last executed item: a
\* Do task's result is the last result of its body (nil for an empty body),
\* and the output of a successful execution holds under "result" the result
\* of the root list's last item.
C11_ListValueIsLastResult ==
  /\ []((pc = "done" /\ ret.err = NoErr /\ workflowDef.hasDo) =>
          LET root == stack[1]
              n == Len(root.list)
          IN /\ Len(root.results) = n
             /\ Holds(ret.value.obj, "result", LastOf(root.results))
             /\ (n > 0 /\ root.list[n].kind = "set") =>
                  Holds(ret.value.obj, "result", Obj(root.list[n].set)))
  /\ [][Len(stack') < Len(stack) =>
          /\ stack'[Len(stack')].last = LastOf(Top.results)
          /\ LastOf(stack'[Len(stack')].results) = LastOf(Top.results)
          /\ Len(Top.results) = Len(Top.list)]_vars

\* an execution succeeded whose root list is a Do task of two Set tasks with
\* different assignments, followed by another item
C11_Witness ==
  /\ pc = "done" /\ ret.err = NoErr /\ Len(stack) = 1
  /\ Len(stack[1].list) = 2
  /\ stack[1].list[1].kind = "do" /\ Len(stack[1].list[1].do) = 2
  /\ stack[1].list[1].do[1].kind = "set" /\ stack[1].list[1].do[2].kind = "set"
  /\ stack[1].list[1].do[1].set # stack[1].list[1].do[2].set
  /\ stack[1].results[1] = Obj(stack[1].list[1].do[2].set)
  /\ stack[1].results[1] # stack[1].results[2]
  /\ Holds(ret.value.obj, "result", stack[1].results[2])

\* st1 is st with the assignments m applied, apart from the keys in own
SetApplied(st, st1, m, own) ==
  /\ DOMAIN st1 = (DOMAIN st) \cup (DOMAIN m) \cup own
  /\ \A k \in (DOMAIN m) \ own : Holds(st1, k, m[k])
  /\ \A k \in (DOMAIN st) \ ((DOMAIN m) \cup own) : Holds(st1, k, st[k])

\* the Set task a running branch executes in its next step: its own item or
\* the nested item its Do body has reached
BranchSetItem(f) ==
  IF f.item.kind = "do" /\ f.j <= Len(f.item.do) THEN f.item.do[f.j] ELSE f.item

\* C12: the step that executes Set(M) on a State S leaves every key of M
\* mapped to M's value and every other key of S as it was, the keys under
\* which the result is then recorded (the task's Key, and at the top level
\* its positional alias) aside, and the task's result is the map M itself;
\* this holds in the dispatcher and in a fork branch.
C12_SetAppliesAssignments ==
  [][/\ (HasItem /\ Item.kind = "set") =>
          /\ SetApplied(workflowState, workflowState', Item.set, {Item.key, Alias(Top.i - 1)})
          /\ stack'[Len(stack)].last = Obj(Item.set)
          /\ Holds(workflowState', Item.key, Obj(Item.set))
     /\ \A b \in DOMAIN futures :
          (Running(b) /\ futures'[b] # futures[b] /\ BranchSetItem(futures[b]).kind = "set") =>
            LET it == BranchSetItem(futures[b])
            IN /\ SetApplied(futures[b].st, futures'[b].st, it.set, {it.key})
               /\ futures'[b].last = Obj(it.set)
               /\ Holds(futures'[b].st, it.key, Obj(it.set))]_vars

\* a Set task of the dispatcher has overwritten one key of a State that holds
\* another key too
C12_Witness ==
  /\ pc = "run" /\ Len(stack) = 1 /\ Top.i = 3
  /\ Top.list[1].kind = "set" /\ Top.list[2].kind = "set"
  /\ DOMAIN Top.list[1].set = {"a", "b"} /\ DOMAIN Top.list[2].set = {"a"}
  /\ workflowState["a"] # Top.list[1].set["a"]
  /\ workflowState["b"] = Top.list[1].set["b"]
  /\ Top.last = Obj(Top.list[2].set)

\* a Set task of a branch has overwritten one key of a snapshot that holds
\* another key too
C12_BranchWitness ==
  /\ pc = "fork" /\ {"a", "b"} \subseteq DOMAIN forkPre
  /\ \E b \in DOMAIN futures :
       /\ futures[b].status = "ok" /\ futures[b].item.kind = "set"
       /\ futures[b].st["a"] # forkPre["a"] /\ futures[b].st["b"] = forkPre["b"]

\* st1 is st apart from the keys in own
SameApartFrom(st, st1, own) ==
  /\ DOMAIN st1 = (DOMAIN st) \cup own
  /\ \A k \in (DOMAIN st) \ own : Holds(st1, k, st[k])

\* C13: a Set(M) executed right after a Set(M) with the same assignments
\* leaves the State as the first one left it, the keys under which the second
\* result is recorded aside, and returns the same result as the first.
C13_SetIdempotent ==
  [][/\ (/\ HasItem /\ Item.kind = "set" /\ Top.i > 1
         /\ Top.list[Top.i - 1].kind = "set" /\ Top.list[Top.i - 1].set = Item.set) =>
          /\ SameApartFrom(workflowState, workflowState', {Item.key, Alias(Top.i - 1)})
          /\ stack'[Len(stack)].last = Top.last
     /\ \A b \in DOMAIN futures :
          LET f == futures[b]
          IN (/\ Running(b) /\ futures'[b] # f /\ f.item.kind = "do"
              /\ f.j > 1 /\ f.j <= Len(f.item.do)
              /\ f.item.do[f.j].kind = "set" /\ f.item.do[f.j - 1].kind = "set"
              /\ f.item.do[f.j].set = f.item.do[f.j - 1].set) =>
               /\ SameApartFrom(f.st, futures'[b].st, {f.item.do[f.j].key})
               /\ futures'[b].last = f.last]_vars

\* two Set tasks with the same assignments have run one after the other in
\* the body of a Do task
C13_Witness ==
  /\ pc = "run" /\ Len(stack) = 2 /\ Top.i = 3
  /\ Top.list[1].kind = "set" /\ Top.list[2].kind = "set"
  /\ Top.list[1].set = Top.list[2].set
  /\ workflowState["a"] = Top.list[2].set["a"]
  /\ Top.last = Obj(Top.list[1].set)

\* the entries of a State that Set tasks assign
Assigned(st) == [k \in (DOMAIN st) \cap {"a", "b", "status", "items"} |-> st[k]]

\* what the Set tasks of a list, and of the Do bodies in it, assign when the
\* list runs to its end on the assignments st
RECURSIVE Effect(_, _)
Effect(list, st) ==
  IF list = <<>> THEN st
  ELSE LET it == Head(list)
           st1 == CASE it.kind = "set" -> [x \in (DOMAIN st) \cup (DOMAIN it.set) |->
                                            IF x \in DOMAIN it.set THEN it.set[x] ELSE st[x]]
                    [] it.kind = "do" -> Effect(it.do, st)
                    [] OTHER -> st
       IN Effect(Tail(list), st1)

\* the assignments of the items completed so far in the first n active lists
RECURSIVE EffectOfFrames(_)
EffectOfFrames(n) ==
  IF n = 0 THEN EmptyMap
  ELSE Effect(SubSeq(stack[n].list, 1, stack[n].i - 1), EffectOfFrames(n - 1))

\* C14: a Do body runs on the caller's own State: at every moment the State
\* holds, for each assigned key, the value of the latest assignment among the
\* items completed so far, those of enclosing lists, of the body and of Do
\* tasks already returned alike; the same holds of a Do task in a branch and
\* the branch State.
C14_DoSharesCallerState ==
  /\ Assigned(workflowState) = Assigned(EffectOfFrames(Len(stack)))
  /\ \A b \in DOMAIN futures :
       LET f == futures[b]
       IN f.item.kind = "do" =>
            Assigned(f.st) = Assigned(Effect(SubSeq(f.item.do, 1, f.j - 1), Assigned(f.snap)))

\* the sibling that follows a Do task is about to run on a State in which the
\* body's second Set task has overwritten one key of the body's first
C14_Witness ==
  /\ pc = "run" /\ Len(stack) = 1 /\ Top.i = 2 /\ Len(Top.list) = 2
  /\ Top.list[1].kind = "do" /\ Len(Top.list[1].do) = 2
  /\ Top.list[1].do[1].kind = "set" /\ Top.list[1].do[2].kind = "set"
  /\ DOMAIN Top.list[1].do[1].set = {"a", "b"}
  /\ Top.list[1].do[1].set["a"] # Top.list[1].do[2].set["a"]
  /\ Holds(workflowState, "a", Top.list[1].do[2].set["a"])
  /\ Holds(workflowState, "b", Top.list[1].do[1].set["b"])

\* the kinds each dispatch chain has an arm for
DispatcherKinds == {"call", "fork", "set", "do"}
BranchKinds == {"do", "call", "set"}
NestedKinds == {"call", "set"}

\* C15: an item of a kind the dispatch has no arm for is never completed or
\* skipped: in the dispatcher it ends the execution with the "unsupported
\* task type" error naming it, in a branch and in the Do body of a branch it
\* fails the branch with the corresponding error, and a Fork with such a
\* branch never returns a result.
C15_UnsupportedKindFails ==
  /\ [](/\ \A k \in DOMAIN stack : \A i \in 1..(stack[k].i - 1) :
             stack[k].list[i].kind \in DispatcherKinds
        /\ (pc = "done" /\ failedAt # <<>> /\ Item.kind \notin DispatcherKinds) =>
             /\ RootCause(ret.err) = ErrUnsupported(Item.key)
             /\ ret.value = Nil
        /\ \A b \in DOMAIN futures :
             LET f == futures[b]
             IN /\ f.item.kind \notin BranchKinds =>
                     /\ f.status # "ok"
                     /\ forkRet # "ok"
                     /\ f.status = "err" => RootCause(f.err) = ErrBranchUnsupported(f.item.key)
                /\ f.item.kind = "do" =>
                     \A j \in DOMAIN f.item.do :
                       f.item.do[j].kind \notin NestedKinds =>
                         /\ f.j <= j
                         /\ f.status # "ok"
                         /\ forkRet # "ok"
                         /\ (f.status = "err" /\ f.j = j) =>
                              RootCause(f.err) = ErrNestedUnsupported(f.item.do[j].key))
  /\ [][(HasItem /\ Item.kind \notin DispatcherKinds) =>
          (pc' = "done" /\ failedAt' = Path /\ stack' = stack /\ workflowState' = workflowState)]_vars

\* an execution has failed because the second item of a branch's Do body is
\* of a kind the branch cannot execute
C15_Witness ==
  /\ pc = "done" /\ forkRet = "err"
  /\ \E b \in DOMAIN futures :
       /\ futures[b].item.kind = "do" /\ futures[b].j = 2 /\ Len(futures[b].item.do) = 2
       /\ futures[b].item.do[2].kind \notin NestedKinds
       /\ RootCause(ret.err) = ErrNestedUnsupported(futures[b].item.do[2].key)

\* C16: the interpreter runs only on a definition the parser has accepted:
\* for a source the parser rejects no executeTasks call is ever active, no
\* task is dispatched, no activity is started, the State stays empty, and
\* ExecuteServerlessJSONWorkflow returns nil and the "invalid serverless
\* workflow JSON" error; the YAML entry point never executes anything.
C16_NoExecutionWithoutValidation ==
  /\ pc \in {"run", "fork", "done"} => (source.valid /\ source.format = "json" /\ workflowDef = source.def)
  /\ (~source.valid \/ source.format = "yaml") =>
       /\ pc \in {"parse", "rejected", "validated"}
       /\ stack = <<>> /\ started = <<>> /\ futures = <<>>
       /\ workflowState = EmptyMap
       /\ workflowDef = Nil
  /\ (pc # "parse" /\ ~source.valid) =>
       /\ pc = "rejected"
       /\ "cause" \in DOMAIN Returned.err
       /\ Returned.err.cause = ErrParse
       /\ source.format = "json" => Returned = [value |-> Nil, err |-> ErrInvalidJSON(ErrParse)]

\* ExecuteServerlessJSONWorkflow has rejected a source whose task list holds
\* an HTTP call
C16_Witness ==
  /\ pc = "rejected" /\ source.format = "json"
  /\ source.def.hasDo
  /\ \E i \in DOMAIN source.def.do : source.def.do[i].kind = "call"
  /\ Returned.value = Nil

\* C17: in the step that starts a Fork every branch gets a State with the
\* keys of the parent State of that moment, each value as the activity
\* boundary encodes it (a call result becomes a generic object): it holds
\* the assignments of every task completed before the Fork, and no later
\* write of the parent changes the State of a branch.
C17_BranchStartsFromForkPointState ==
  /\ [][(pc = "run" /\ pc' = "fork") =>
          /\ Len(futures') = Len(Item.branches)
          /\ \A b \in DOMAIN futures' :
               /\ futures'[b].status = "running" /\ futures'[b].writes = <<>>
               /\ DOMAIN futures'[b].st = DOMAIN workflowState
               /\ \A k \in DOMAIN workflowState : futures'[b].st[k] = JSONRoundTrip(workflowState[k])
               /\ Assigned(futures'[b].st) = EffectOfFrames(Len(stack))]_vars
  /\ [][workflowState' # workflowState => futures' = futures]_vars

\* a branch is running on the State left by an HTTP call that preceded the
\* Fork, with the call's result in its decoded form
C17_Witness ==
  /\ pc = "fork"
  /\ \E k \in DOMAIN forkPre : \E b \in DOMAIN futures :
       /\ "http" \in DOMAIN forkPre[k]
       /\ futures[b].status = "running"
       /\ Holds(futures[b].st, k, JSONRoundTrip(forkPre[k]))
       /\ futures[b].st[k] # forkPre[k]

\* the case a Switch selects against the State st, 0 when no case matches
CaseMatches(c, st) ==
  ~c.hasWhen \/ LET r == evaluateSimpleExpression(c.when, st) IN r.ok /\ isTruthy(r.value)
FirstMatch(cases, st) ==
  IF \E i \in DOMAIN cases : CaseMatches(cases[i], st)
    THEN CHOOSE i \in DOMAIN cases : CaseMatches(cases[i], st) /\ \A j \in 1..(i - 1) : ~CaseMatches(cases[j], st)
    ELSE 0
Evaluable(cases, st) ==
  \A i \in DOMAIN cases : cases[i].hasWhen => evaluateSimpleExpression(cases[i].when, st).ok
IsSwitch(it) == it.kind = "switch" /\ "cases" \in DOMAIN it

\* C18: the step that executes a Switch task of which some case matches the
\* State selects the first such case in declaration order: it raises no
\* error, and the list goes on with the next sibling or ends as that case's
\* then says, whatever a later matching case says.
C18_SwitchSelectsFirstMatch ==
  [][(HasItem /\ IsSwitch(Item) /\ Evaluable(Item.cases, workflowState)
        /\ FirstMatch(Item.cases, workflowState) > 0) =>
       LET selected == Item.cases[FirstMatch(Item.cases, workflowState)]
       IN /\ pc' = "run" /\ failedAt' = <<>>
          /\ selected.then = "continue" => stack'[Len(stack)].i = Top.i + 1
          /\ selected.then = "end" => stack'[Len(stack)].i > Len(Top.list)]_vars

\* C19: the step that executes a Switch task of which no case matches the
\* State, and which has no default case, raises no error, yields nil as the
\* task's result and moves on to the next sibling.
C19_SwitchWithoutMatchIsNoOp ==
  [][(HasItem /\ IsSwitch(Item) /\ Evaluable(Item.cases, workflowState)
        /\ FirstMatch(Item.cases, workflowState) = 0) =>
       /\ pc' = "run" /\ failedAt' = <<>>
       /\ stack'[Len(stack)].i = Top.i + 1
       /\ stack'[Len(stack)].last = Null
       /\ Holds(workflowState', Item.key, Null)]_vars

\* C20: the step that executes a For task whose inExpr evaluates to the
\* empty array raises no error, yields the empty array as the task's result
\* and does not enter the body.
C20_ForOverEmptyArray ==
  [][(HasItem /\ Item.kind = "for"
        /\ evaluateSimpleExpression(Item.inExpr, workflowState) = [ok |-> TRUE, value |-> Arr(<<>>)]) =>
       /\ pc' = "run" /\ failedAt' = <<>>
       /\ Len(stack') = Len(stack)
       /\ stack'[Len(stack)].i = Top.i + 1
       /\ stack'[Len(stack)].last = Arr(<<>>)
       /\ Holds(workflowState', Item.key, Arr(<<>>))]_vars

\* C21: an equality expression <path> == "<literal>", evaluated against a
\* context in which the path is present, returns without error the Bool true
\* when the stored value equals the literal and the Bool false otherwise.
C21_EqualityReturnsBool ==
  (ev # Nil /\ ev.plain # Nil /\ ev.form.kind = "eq" /\ ev.form.key \in DOMAIN ev.ctx)
    => /\ ev.plain.ok
       /\ ev.ctx[ev.form.key] = Str(ev.form.lit) => ev.plain.value = Bool(TRUE)
       /\ ev.ctx[ev.form.key] # Str(ev.form.lit) => ev.plain.value = Bool(FALSE)

\* an equality against a present path was evaluated and the values differ
C21_Witness ==
  /\ ev # Nil /\ ev.plain # Nil /\ ev.form.kind = "eq" /\ ev.form.lit = "active"
  /\ Holds(ev.ctx, ev.form.key, Str("hello"))
  /\ ev.plain = [ok |-> TRUE, value |-> Bool(FALSE)]

\* C22: a bare path evaluated against a context that holds its key returns
\* the stored value, the empty string included; against a context without
\* the key it fails with the PropertyNotFound error of that key.
C22_PathLookup ==
  (ev # Nil /\ ev.plain # Nil /\ ev.form.kind = "path")
    => IF ev.form.key \in DOMAIN ev.ctx
         THEN ev.plain = [ok |-> TRUE, value |-> ev.ctx[ev.form.key]]
         ELSE ev.plain = [ok |-> FALSE, err |-> ErrPropertyNotFound(ev.form.key)]

\* a path whose key holds the empty string was evaluated and returned it
C22_Witness ==
  /\ ev # Nil /\ ev.form.kind = "path"
  /\ Holds(ev.ctx, ev.form.key, Str(""))
  /\ ev.plain = [ok |-> TRUE, value |-> Str("")]

\* a path whose key the context lacks was evaluated and failed
C22_AbsentWitness ==
  /\ ev # Nil /\ ev.form.kind = "path" /\ ev.form.key \notin DOMAIN ev.ctx
  /\ ev.plain # Nil /\ ~ev.plain.ok

\* C23: wrapping an expression in ${ ... } does not change its outcome, value
\* or error, and a bare path has the same outcome with and without its
\* leading dot.
C23_WrapperAndDotAreOptional ==
  /\ (ev # Nil /\ ev.plain # Nil /\ ev.wrapped # Nil) => ev.wrapped = ev.plain
  /\ (ev # Nil /\ ev.plain # Nil /\ ev.flipped # Nil /\ ev.form.kind = "path") => ev.flipped = ev.plain

\* a path was evaluated as written, wrapped and with the other dot, and a value came back
C23_Witness ==
  /\ ev # Nil /\ ev.form.kind = "path" /\ ev.form.dot
  /\ ev.plain = [ok |-> TRUE, value |-> Str("active")]
  /\ ev.wrapped # Nil /\ ev.flipped # Nil

\* the values that are not truthy
Falsy == {Null, Bool(FALSE), Str(""), Num(0), Flt(0, 0), Arr(<<>>), Obj(EmptyMap)}

\* the kinds of the Value model
ValueKinds == {"null", "bool", "str", "num", "flt", "arr", "obj"}

\* C24: isTruthy is false for null, for the Bool false, for the empty string,
\* for the integral and the floating zero and for the empty array and object;
\* it is true for every other Bool, String, Number (negative ones included),
\* Array and Object.
C24_Truthiness ==
  (ev # Nil /\ ev.truthy # Nil /\ DOMAIN ev.plain.value \subseteq ValueKinds)
    => ev.truthy = Bool(ev.plain.value \notin Falsy)

\* a negative number was classified, and it is truthy
C24_Witness ==
  /\ ev # Nil /\ ev.truthy = Bool(TRUE)
  /\ ev.plain = [ok |-> TRUE, value |-> Num(0 - 1)]

\* the dispatcher is about to execute a Call item
AtCall == HasItem /\ Item.kind = "call"

\* C25: executing a Call task hands exactly one request to the collaborator,
\* no other step of the engine hands it one, and when the collaborator
\* succeeds its typed response is the result of the task; a Call that is the
\* item of a branch issues exactly one request as well.
C25_OneRequestPerCall ==
  /\ [](\A b \in DOMAIN futures :
          futures[b].item.kind = "call"
            => /\ Len(futures[b].calls) = (IF futures[b].status = "running" THEN 0 ELSE 1)
               /\ futures[b].status = "ok" => futures[b].last = futures[b].calls[1].outcome.result)
  /\ [][IF AtCall /\ started' # started
          THEN /\ Len(requests') = Len(requests) + 1
               /\ SubSeq(requests', 1, Len(requests)) = requests
               /\ LET r == requests'[Len(requests')]
                  IN /\ r.path = Path
                     /\ r.outcome.ok
                          => /\ "http" \in DOMAIN r.outcome.result
                             /\ Holds(workflowState', Item.key, r.outcome.result)
                             /\ stack'[Len(stack)].last = r.outcome.result
          ELSE requests' = requests]_vars

\* an execution with one Call ended without error: one request was issued,
\* and the response is in the State
C25_Witness ==
  /\ pc = "done" /\ ret.err = NoErr
  /\ Len(requests) = 1 /\ requests[1].outcome.ok
  /\ \E k \in DOMAIN workflowState : workflowState[k] = requests[1].outcome.result

\* the collaborator returned an error, or a response whose status is not 2xx
CallFailed(o) == ~o.ok \/ o.result.http.status < 200 \/ o.result.http.status > 299

\* C26: a Call task fails with CallFailure when the collaborator returns an
\* error or a non-success status: the execution has then ended with the
\* error of that item, and the State is the one the request was issued in,
\* without a result for the task.
C26_CallFailureAborts ==
  \A i \in DOMAIN requests :
    CallFailed(requests[i].outcome)
      => /\ pc = "done" /\ ret.err # NoErr
         /\ failedAt = requests[i].path
         /\ workflowState = requests[i].st

\* a value in which an expression is replaced by what it evaluates to
Resolve(v, st) ==
  IF "text" \in DOMAIN v
    THEN LET r == evaluateSimpleExpression(v.text, st) IN IF r.ok THEN r.value ELSE v
    ELSE v

\* the request of a call whose arguments are resolved against a State
ResolvedRequest(w, st) ==
  [method |-> w.method, endpoint |-> w.endpoint, body |-> Resolve(w.body, st),
   headers |-> [h \in DOMAIN w.headers |-> Resolve(w.headers[h], st)]]

\* C27: the request a Call task hands to the collaborator is the task's
\* method, target, body and headers with every embedded expression resolved
\* against the State the task runs in, at the top level and in a branch.
C27_RequestIsResolved ==
  /\ \A i \in DOMAIN requests :
       requests[i].req = ResolvedRequest(requests[i].item.with, requests[i].st)
  /\ \A b \in DOMAIN futures : \A i \in DOMAIN futures[b].calls :
       futures[b].calls[i].req = ResolvedRequest(futures[b].calls[i].item.with, futures[b].calls[i].st)

\* C28: Keys are unique per list only, and a result recorded under a Key is
\* not overwritten by an item with the same Key in another list: when an
\* execution has ended without error, every item of the root list has its
\* own result under its Key, and so has every Set item in the body of a Do
\* item of the root list.
C28_ResultsSurviveNestedLists ==
  (pc = "done" /\ ret.err = NoErr /\ Len(stack) = 1)
    => \A i \in DOMAIN stack[1].list :
         LET it == stack[1].list[i]
         IN /\ Holds(workflowState, it.key, stack[1].results[i])
            /\ it.kind = "do"
                 => \A k \in DOMAIN it.do :
                      it.do[k].kind = "set" => Holds(workflowState, it.do[k].key, Obj(it.do[k].set))

\* the branches of the current Fork whose activity has failed
FailedBranches == {b \in DOMAIN futures : futures[b].status = "err"}

\* C29: when a Fork fails because branches fail, the error it reports is the
\* one of the failing branch that was declared first, with that branch's
\* index, in whatever order the branches ended.
C29_ForkReportsFirstDeclaredFailure ==
  forkRet = "err"
    => /\ FailedBranches # {}
       /\ LET m == CHOOSE b \in FailedBranches : \A c \in FailedBranches : b <= c
          IN Wraps(ret.err, ErrBranch(m - 1, futures[m].err))

\* two branches failed, the second declared one first, and the Fork reports the first declared one
C29_Witness ==
  /\ forkRet = "err"
  /\ Len(finished) = 2 /\ finished[1] = 2
  /\ FailedBranches = {1, 2}
  /\ Wraps(ret.err, ErrBranch(0, futures[1].err))

\* lists of Set items and of Do items over such lists
RECURSIVE SetAndDoOnly(_)
SetAndDoOnly(list) ==
  \A i \in DOMAIN list :
    list[i].kind = "set" \/ (list[i].kind = "do" /\ SetAndDoOnly(list[i].do))

\* executeTasks on a list of Set and Do items, from the State st: the State
\* it leaves and the lastResult it returns
RECURSIVE executeTasks(_, _)
executeTasks(list, st) ==
  IF list = <<>> THEN [st |-> st, last |-> Null]
  ELSE LET n == Len(list)
           pre == executeTasks(SubSeq(list, 1, n - 1), st)
           it == list[n]
           body == executeTasks(it.do, pre.st)
           result == IF it.kind = "set" THEN Obj(it.set) ELSE body.last
           st1 == IF it.kind = "set" THEN CopyInto(pre.st, it.set) ELSE body.st
       IN [st |-> Record(st1, n - 1, it.key, result), last |-> result]

\* C30: the item of a fork branch, a Set, a Do or a Call, leaves in the
\* branch the result and the State entries that the top-level dispatcher
\* produces for the same item from the same starting State; for a Call, a
\* result that HTTPCallActivity can return for the request.
C30_BranchMatchesDispatcher ==
  \A b \in DOMAIN futures :
    LET f == futures[b]
    IN /\ (f.status = "ok" /\ SetAndDoOnly(<<f.item>>))
            => /\ f.last = executeTasks(<<f.item>>, f.snap).last
               /\ f.st = executeTasks(<<f.item>>, f.snap).st
       /\ (f.status = "ok" /\ f.item.kind = "call")
            => /\ [ok |-> TRUE, result |-> f.last] \in HTTPCallActivity(HTTPCallRequest(f.item.with))
               /\ f.st = Record(f.snap, 0, f.item.key, f.last)

\* C31: once the dispatcher has executed a Set task and recorded its result,
\* every key of the task's assignments holds its assigned value in the
\* State, whatever the task's Key and the assigned keys are.
C31_AssignedKeysHoldTheirValues ==
  [][(HasItem /\ Item.kind = "set" /\ started' # started)
       => \A k \in DOMAIN Item.set : Holds(workflowState', k, Item.set[k])]_vars

\* the handling of the s-th received signal has ended
Handled(s) == s < Len(apiLog) \/ chatPc # "call"

\* C32: for each received signal the workflow calls CallClaudeAPI at least
\* once and at most maxRetries times, and every call but the first follows a
\* response that held a workflow failing validation.
C32_CallsPerSignal ==
  \A s \in DOMAIN apiLog :
    /\ Len(apiLog[s]) <= maxRetries
    /\ Handled(s) => Len(apiLog[s]) >= 1
    /\ \A k \in 1..(Len(apiLog[s]) - 1) : apiLog[s][k] = "invalid"
    /\ (~Handled(s) /\ apiLog[s] # <<>>) => apiLog[s][Len(apiLog[s])] = "invalid"

\* a signal whose handling used all maxRetries calls and ended
C32_Witness ==
  /\ chatPc = "wait"
  /\ \E s \in DOMAIN apiLog : Len(apiLog[s]) = maxRetries

\* C33: the workflow is never seen processing while it waits for the next
\* signal or after it has completed; IsProcessing is true only while a
\* received signal is being handled, and the handling of a signal ends with
\* IsProcessing false whatever the last call's outcome was.
C33_ProcessingOnlyWhileHandling ==
  /\ [](chatPc \in {"wait", "completed"} => ~isProcessing)
  /\ [](isProcessing => chatPc = "call")
  /\ [][(chatPc = "call" /\ chatPc' # "call") => ~isProcessing']_vars

\* the workflow waits again after a signal whose four responses all held an
\* invalid workflow
C33_Witness ==
  /\ chatPc = "wait" /\ ~isProcessing
  /\ apiLog # <<>>
  /\ apiLog[Len(apiLog)] = [k \in 1..maxRetries |-> "invalid"]

\* the messages a step of the workflow added to the conversation
Added == SubSeq(conversation', Len(conversation) + 1, Len(conversation'))

\* the class of the outcome the call of this step returned
LastOutcome == apiLog'[Len(apiLog')][Len(apiLog'[Len(apiLog')])]

\* C34: the conversation only grows at its end: every step keeps the
\* messages it had in their places, the receipt of a signal adds the user's
\* message, and a call's return adds the response (the apology when the
\* call failed), followed by the correction prompt exactly when the
\* response held an invalid workflow.
C34_ConversationIsAppendOnly ==
  [][/\ Len(conversation') >= Len(conversation)
     /\ SubSeq(conversation', 1, Len(conversation)) = conversation
     /\ (chatPc = "wait" /\ chatPc' = "call")
          => Added = <<NewUserMessage(InputText(userInput'))>>
     /\ (chatPc = "call" /\ apiLog' # apiLog)
          => /\ Added # <<>>
             /\ Added[1] = IF LastOutcome = "error"
                             THEN NewAssistantMessage(ApologyText)
                             ELSE NewAssistantMessage(ReplyText(userInput))
             /\ Tail(Added) = IF LastOutcome = "invalid"
                                THEN <<NewUserMessage(CorrectionText)>> ELSE <<>>
     /\ (apiLog' = apiLog) => Added = <<>>]_vars

\* a conversation that holds an input, an invalid workflow with its
\* correction prompt, and the response that followed
C34_Witness ==
  /\ Len(conversation) >= 4
  /\ conversation[1].role = "user" /\ conversation[1].text.kind = "input"
  /\ conversation[2].text.kind = "reply"
  /\ conversation[3] = NewUserMessage(CorrectionText)
  /\ conversation[4].role = "assistant"

\* C35: whenever the workflow is idle (IsProcessing false) with a non-empty
\* conversation, the last message of the conversation has the assistant role.
C35_IdleConversationEndsWithAssistant ==
  (~isProcessing /\ conversation # <<>>)
     => conversation[Len(conversation)].role = "assistant"

\* C36: when CallClaudeAPI fails, the workflow appends exactly one message,
\* the assistant's apology, clears IsProcessing and waits for the next
\* signal; the failed call is the last one made for that input.
C36_FailedCallEndsTheHandling ==
  /\ [][(chatPc = "call" /\ apiLog' # apiLog /\ LastOutcome = "error")
          => /\ Added = <<NewAssistantMessage(ApologyText)>>
             /\ ~isProcessing'
             /\ chatPc' = "wait"]_vars
  /\ [](\A s \in DOMAIN apiLog : \A k \in DOMAIN apiLog[s] :
          apiLog[s][k] = "error" => (k = Len(apiLog[s]) /\ Handled(s)))

\* the workflow handles a second signal after the call for the first failed
C36_Witness ==
  /\ Len(apiLog) >= 2
  /\ apiLog[1] # <<>> /\ apiLog[1][Len(apiLog[1])] = "error"
  /\ conversation[Len(apiLog[1]) * 2] = NewAssistantMessage(ApologyText)
  /\ apiLog[2] # <<>>

\* C37: the workflow completes only out of a wait in which TimeoutMinutes
\* minutes passed without a signal, never while a signal is being handled,
\* and it returns its state; every wait starts its own timer; and a wait in
\* which no signal arrives ends with the workflow completed.
C37_CompletesAfterIdleTimeout ==
  /\ [][(chatPc # "completed" /\ chatPc' = "completed")
          => /\ chatPc = "wait" /\ ~isProcessing
             /\ idle = TimeoutMinutes
             /\ chatRet' = [conversation |-> conversation, isProcessing |-> FALSE]]_vars
  /\ [][(chatPc = "call" /\ chatPc' = "wait") => timer' = 0]_vars
  /\ [](chatPc = "call" => chatRet = Nil)
  /\ ((chatPc = "wait" /\ signalCh = <<>>) ~> (chatPc = "completed" \/ signalCh # <<>>))
  /\ ((chatPc = "wait" /\ timer = TimeoutMinutes) ~> chatPc = "completed")

\* the workflow completed after it had handled a signal and waited again
C37_Witness ==
  /\ chatPc = "completed"
  /\ apiLog # <<>>
  /\ chatRet # Nil /\ chatRet.conversation = conversation /\ conversation # <<>>

\* the request has returned: an answer or an HTTP error
RequestReturned(r) == handler[r].pc \in {"done", "failed"}

\* the request answered with a text taken from the conversation
AnsweredFromConversation(r) ==
  handler[r].pc = "done" /\ handler[r].response # PlaceholderText

\* C38: SendChatMessage answers from the conversation only after a query
\* showed it a state whose conversation is at least 2 messages longer than at
\* its query before the signal and whose IsProcessing is false; it queries
\* at most MaxPolls times in its loop, answers with the placeholder exactly
\* when none of those queries showed such a state, and always returns.
C38_AnswersOnlyWhenReady ==
  /\ [](\A r \in Requests :
          /\ handler[r].i <= MaxPolls
          /\ AnsweredFromConversation(r)
               => /\ handler[r].seen # Nil
                  /\ handler[r].seen.len >= handler[r].initialLength + 2
                  /\ ~handler[r].seen.isProcessing
          /\ (handler[r].pc = "done" /\ handler[r].response = PlaceholderText)
               => (handler[r].i = MaxPolls /\ handler[r].seen = Nil))
  /\ \A r \in Requests : <>RequestReturned(r)

\* the request answers with the reply to its message after more than one poll
C38_Witness ==
  /\ handler[1].pc = "done"
  /\ handler[1].response = ReplyText(RequestMessage(1))
  /\ handler[1].i > 1

\* the request answers with the placeholder while its message is being handled
C38_PlaceholderWitness ==
  /\ handler[1].pc = "done" /\ handler[1].response = PlaceholderText
  /\ isProcessing /\ userInput = RequestMessage(1)

\* C39: when the requests for one thread overlap, a request that answers with
\* a reply of the model answers with the reply to the message it sent itself.
C39_RequestGetsReplyToOwnMessage ==
  \A r \in Requests :
    (handler[r].pc = "done" /\ handler[r].response.kind = "reply")
       => handler[r].response.of = RequestMessage(r)

====
